---- MODULE Spec2Model ----
(***************************************************************************)
(* Natural-language query gateway (Kati2710/BDC): the SQL safety filter,   *)
(* the policy enforcer, the /chat orchestration and the warehouse query    *)
(* executor, modelled from the JavaScript sources.                         *)
(*                                                                         *)
(* A text is a sequence of characters, each character a one-character      *)
(* string.  SANY cannot lex the grave accent inside a string literal, so   *)
(* that one character is written BT.                                       *)
(***************************************************************************)
EXTENDS Integers, Sequences, FiniteSets, TLC

VARIABLES
    raw,          \* filter harness: the raw LLM completion under test
    out,          \* filter harness: the outcome of cleanSQL(raw)
    pc,           \* /chat: position of the request handler
    wantTotal,    \* /chat: Boolean(req.body.include_total)
    previewLimit, \* /chat: the effective preview limit
    sql,          \* /chat: the handler's local variable sql
    llmSqlCalls,  \* /chat: number of generateSQL calls issued so far
    firstDraft,   \* /chat: verdict on the first draft
    executed,     \* /chat: statements handed to the warehouse, in order
    response,     \* /chat: the response written to res
    mdConn,       \* executor: the shared connection handle, 0 for null
    opened,       \* executor: number of connection handles opened so far
    mdInstance,   \* part_001: 1 when mdInstance holds an instance, 0 for null
    mdConnReady,  \* part_001: the flag mdConnReady
    attempt,      \* part_001: the parameter attempt of the running queryMD
    qpc,          \* part_001: position of the running queryMD
    log,          \* part_001: the attempts of the running queryMD, in order
    result,       \* part_001: what queryMD returned or threw
    inFlight,     \* part_003: the statements in flight, each on its handle
    waiting,      \* part_003: the callbacks chained on mdQueue, not yet started
    running,      \* part_003: the caller whose callback is running
    rejected,     \* part_003: mdQueue has settled as rejected
    tpc,          \* part_003: position of each caller of queryMD
    dpc,          \* part_003: position of each direct caller of ensureConn
    cachedSchema, \* schema cache: 0 for null, else the number of the cached description
    cacheExpiry,  \* schema cache: 0 for null, else the expiry time in ms
    now,          \* schema cache: Date.now()
    built,        \* schema cache: number of descriptions built so far
    spc,          \* schema cache: position of each request in getSchema
    colsLeft,     \* schema cache: tables whose columns each request has still to read
    got,          \* schema cache: the description getSchema returned to each request
    llmOut,       \* schema cache: LLM calls each request has issued
    events,       \* schema cache: getSchema calls and /clear-cache calls, in order
    previewRows,  \* /chat: number of rows the preview returned
    totalRows,    \* /chat: the local totalRows, Null for null
    warned,       \* /chat: console.warn("COUNT falhou") has been written
    bigintAt,     \* /chat: index of the first preview row holding a BigInt, 0 when none
    applied,      \* pure functions: the applications made to raw, in order
    reqQuery,     \* /chat: req.body.query as received
    db,           \* part_000: the published Database instance, 0 for null
    dbInitPromise,\* part_000: state of the initialization promise
    instances,    \* part_000: the initializations started, each with the state of its probe
    gpc,          \* part_000: position of each request
    awaiting,     \* part_000: the instance whose initialization each request awaits
    gotDb,        \* part_000: the instance getDb gave each request
    resp000       \* part_000: the HTTP status each request was answered with

filterVars == <<raw, out, applied>>
rowVars == <<previewRows, bigintAt, totalRows, warned>>
chatVars == <<pc, wantTotal, previewLimit, sql, llmSqlCalls, firstDraft, executed, response, rowVars, reqQuery>>
vars000 == <<db, dbInitPromise, instances, gpc, awaiting, gotDb, resp000>>
vars001 == <<mdInstance, mdConnReady, attempt, qpc, log, result>>
vars003 == <<inFlight, waiting, running, rejected, tpc, dpc>>
dbVars == <<mdConn, opened, vars001, vars003>>
schemaVars == <<cachedSchema, cacheExpiry, now, built, spc, colsLeft, got, llmOut, events>>
vars == <<raw, out, pc, wantTotal, previewLimit, sql, llmSqlCalls, firstDraft, executed, response,
          mdConn, opened, mdInstance, mdConnReady, attempt, qpc, log, result,
          inFlight, waiting, running, rejected, tpc, dpc,
          cachedSchema, cacheExpiry, now, built, spc, colsLeft, got, llmOut, events,
          previewRows, bigintAt, totalRows, warned, applied, reqQuery,
          db, dbInitPromise, instances, gpc, awaiting, gotDb, resp000>>

(***************************************************************************)
(* Characters and texts                                                    *)
(***************************************************************************)
Chars(str) == SubSeq([i \in 1..Len(str) |-> SubSeq(str, i, i)], 1, Len(str))

BT == "GRAVE"

LowerLetters == "abcdefghijklmnopqrstuvwxyz"
UpperLetters == "ABCDEFGHIJKLMNOPQRSTUVWXYZ"
DigitChars == {"0", "1", "2", "3", "4", "5", "6", "7", "8", "9"}

UpperSet == {SubSeq(UpperLetters, i, i) : i \in 1..Len(UpperLetters)}
LowerSet == {SubSeq(LowerLetters, i, i) : i \in 1..Len(LowerLetters)}

\* \w of a JavaScript regular expression
WordChars == UpperSet \cup LowerSet \cup DigitChars \cup {"_"}

\* \s of a JavaScript regular expression, and what String.prototype.trim removes
SpaceChars == {" ", "\t", "\n", "\r", "\f"}

IsSpace(c) == c \in SpaceChars

LowerOf ==
    [c \in UpperSet |->
        LET i == CHOOSE k \in 1..Len(UpperLetters) : SubSeq(UpperLetters, k, k) = c
        IN  SubSeq(LowerLetters, i, i)]

\* one character of String.prototype.toLowerCase
lc(c) == IF c \in UpperSet THEN LowerOf[c] ELSE c

toLowerCase(s) == SubSeq([i \in 1..Len(s) |-> lc(s[i])], 1, Len(s))

RECURSIVE trimStart(_)
trimStart(s) ==
    IF Len(s) > 0 /\ IsSpace(s[1]) THEN trimStart(SubSeq(s, 2, Len(s))) ELSE s

RECURSIVE trimEnd(_)
trimEnd(s) ==
    IF Len(s) > 0 /\ IsSpace(s[Len(s)]) THEN trimEnd(SubSeq(s, 1, Len(s) - 1)) ELSE s

trim(s) == trimEnd(trimStart(s))

\* s has the characters of w at position i
IsAt(s, i, w) ==
    /\ i >= 1
    /\ i + Len(w) - 1 <= Len(s)
    /\ \A k \in 1..Len(w) : s[i + k - 1] = w[k]

\* the same under the i flag; w is written in lower case
IsAtCI(s, i, w) ==
    /\ i >= 1
    /\ i + Len(w) - 1 <= Len(s)
    /\ \A k \in 1..Len(w) : lc(s[i + k - 1]) = w[k]

startsWith(s, w) == IsAt(s, 1, w)

endsWith(s, w) == IsAt(s, Len(s) - Len(w) + 1, w)

includes(s, w) == \E i \in 1..(Len(s) - Len(w) + 1) : IsAt(s, i, w)

includesCI(s, w) == \E i \in 1..(Len(s) - Len(w) + 1) : IsAtCI(s, i, w)

IsWordAt(s, j) == j >= 1 /\ j <= Len(s) /\ s[j] \in WordChars

\* \b: a word boundary just before position i
Boundary(s, i) == IsWordAt(s, i - 1) # IsWordAt(s, i)

\* \bw\b under the i flag matches at position i
WordAtCI(s, i, w) ==
    /\ IsAtCI(s, i, w)
    /\ Boundary(s, i)
    /\ Boundary(s, i + Len(w))

\* number of characters of s, from position i on, that lie in the class C
RECURSIVE RunLen(_, _, _)
RunLen(s, i, C) == IF i <= Len(s) /\ s[i] \in C THEN 1 + RunLen(s, i + 1, C) ELSE 0

SetMin(S) == CHOOSE m \in S : \A n \in S : m <= n

CountOf(s, c) == Cardinality({i \in 1..Len(s) : s[i] = c})

(***************************************************************************)
(* SQL safety filter (server.js, first revision of the file)               *)
(***************************************************************************)
Fence == <<BT, BT, BT>>

FenceSql == Fence \o Chars("sql")

removeFences_First(s) ==
    LET hits == {i \in 1..Len(s) : IsAt(s, i, Fence)}
    IN  IF hits = {} THEN s
        ELSE LET i == SetMin(hits)
                 n == IF IsAtCI(s, i, FenceSql) THEN Len(FenceSql) ELSE Len(Fence)
             IN  SubSeq(s, 1, i - 1) \o SubSeq(s, i + n, Len(s))

\* sql.replace(/```sql|```/gi, ""): left to right, the longer alternative first
RECURSIVE removeFences(_)
removeFences(s) ==
    LET hits == {i \in 1..Len(s) : IsAt(s, i, Fence)}
    IN  IF hits = {} THEN s
        ELSE LET i == SetMin(hits)
                 n == IF IsAtCI(s, i, FenceSql) THEN Len(FenceSql) ELSE Len(Fence)
             IN  SubSeq(s, 1, i - 1) \o removeFences(SubSeq(s, i + n, Len(s)))

stripFences(s) == trim(removeFences(s))

\* s.replace(/\s+/g, " ")
RECURSIVE collapseSpaces(_)
collapseSpaces(s) ==
    LET hits == {i \in 1..Len(s) : IsSpace(s[i])}
    IN  IF hits = {} THEN s
        ELSE LET i == SetMin(hits)
                 g == RunLen(s, i, SpaceChars)
             IN  SubSeq(s, 1, i - 1) \o <<" ">> \o collapseSpaces(SubSeq(s, i + g, Len(s)))

\* s.replace(/;+$/g, "")
RECURSIVE stripTrailingSemis(_)
stripTrailingSemis(s) ==
    IF Len(s) > 0 /\ s[Len(s)] = ";" THEN stripTrailingSemis(SubSeq(s, 1, Len(s) - 1)) ELSE s

hasMultipleStatements(s0) ==
    LET s == trim(s0)
        semiCount == CountOf(s, ";")
    IN  IF semiCount = 0 THEN FALSE
        ELSE IF semiCount = 1 /\ endsWith(s, <<";">>) THEN FALSE
        ELSE TRUE

SelectWords == {Chars("select"), Chars("with")}

isSelectLike(s0) ==
    LET s == toLowerCase(trim(s0))
    IN  \E w \in SelectWords : startsWith(s, w)

\* /--|\/\*/.test(s)
CommentMarks == {Chars("--"), Chars("/*")}

hasCommentMarker(s) == \E w \in CommentMarks : includes(s, w)

\* One alternative of a pattern is a sequence of words; consecutive words are
\* separated by \s+ .  Every pattern is \b(alt1|alt2|...)\b under the i flag.
Word(str) == <<Chars(str)>>

BLOCKED_SQL_PATTERNS ==
    << [source |-> "\\b(insert|update|delete|drop|alter|create|truncate|merge|grant|revoke)\\b",
        alts |-> << Word("insert"), Word("update"), Word("delete"), Word("drop"),
                    Word("alter"), Word("create"), Word("truncate"), Word("merge"),
                    Word("grant"), Word("revoke") >>],
       [source |-> "\\bpragma\\b", alts |-> << Word("pragma") >>],
       [source |-> "\\battach\\b", alts |-> << Word("attach") >>],
       [source |-> "\\bdetach\\b", alts |-> << Word("detach") >>],
       [source |-> "\\binstall\\b", alts |-> << Word("install") >>],
       [source |-> "\\bload\\b", alts |-> << Word("load") >>],
       [source |-> "\\bcopy\\b", alts |-> << Word("copy") >>],
       [source |-> "\\bexport\\b", alts |-> << Word("export") >>],
       [source |-> "\\bcall\\b", alts |-> << Word("call") >>],
       [source |-> "\\bset\\b", alts |-> << Word("set") >>],
       [source |-> "\\bcreate\\s+secret\\b", alts |-> << <<Chars("create"), Chars("secret")>> >>],
       [source |-> "\\bsecret\\b", alts |-> << Word("secret") >>],
       [source |-> "\\bhttpfs\\b", alts |-> << Word("httpfs") >>],
       [source |-> "\\bs3\\b", alts |-> << Word("s3") >>],
       [source |-> "\\bgcs\\b", alts |-> << Word("gcs") >>],
       [source |-> "\\bazure\\b", alts |-> << Word("azure") >>],
       [source |-> "\\bread_(csv|parquet|json|ndjson)\\b",
        alts |-> << Word("read_csv"), Word("read_parquet"), Word("read_json"),
                    Word("read_ndjson") >>] >>

\* length of the match of one alternative at position i, 0 when it does not match
RECURSIVE AltLen(_, _, _)
AltLen(s, i, parts) ==
    IF ~IsAtCI(s, i, parts[1]) THEN 0
    ELSE IF Len(parts) = 1 THEN Len(parts[1])
    ELSE LET g == RunLen(s, i + Len(parts[1]), SpaceChars)
             r == AltLen(s, i + Len(parts[1]) + g, Tail(parts))
         IN  IF g = 0 \/ r = 0 THEN 0 ELSE Len(parts[1]) + g + r

\* length of the match of \b(alts)\b at position i: the first alternative that fits
MatchLenAt(s, i, alts) ==
    IF ~Boundary(s, i) THEN 0
    ELSE LET fits == {k \in 1..Len(alts) :
                         /\ AltLen(s, i, alts[k]) > 0
                         /\ Boundary(s, i + AltLen(s, i, alts[k]))}
         IN  IF fits = {} THEN 0 ELSE AltLen(s, i, alts[SetMin(fits)])

\* sql.match(rx): the leftmost match, as [at, len]; at = 0 when there is none
RegexMatch(s, alts) ==
    LET hits == {i \in 1..Len(s) : MatchLenAt(s, i, alts) > 0}
    IN  IF hits = {} THEN [at |-> 0, len |-> 0]
        ELSE [at |-> SetMin(hits), len |-> MatchLenAt(s, SetMin(hits), alts)]

NoReason == [source |-> "", match |-> <<>>]

\* findBlockedReason with the first pattern of the list left out
findBlockedReason_SkipFirst(s) ==
    LET matching == {n \in 2..Len(BLOCKED_SQL_PATTERNS) :
                        RegexMatch(s, BLOCKED_SQL_PATTERNS[n].alts).at > 0}
    IN  IF matching = {} THEN NoReason
        ELSE LET rx == BLOCKED_SQL_PATTERNS[SetMin(matching)]
                 m == RegexMatch(s, rx.alts)
             IN  [source |-> rx.source, match |-> SubSeq(s, m.at, m.at + m.len - 1)]

findBlockedReason(s) ==
    LET matching == {n \in 1..Len(BLOCKED_SQL_PATTERNS) :
                        RegexMatch(s, BLOCKED_SQL_PATTERNS[n].alts).at > 0}
    IN  IF matching = {} THEN NoReason
        ELSE LET rx == BLOCKED_SQL_PATTERNS[SetMin(matching)]
                 m == RegexMatch(s, rx.alts)
             IN  [source |-> rx.source, match |-> SubSeq(s, m.at, m.at + m.len - 1)]

\* The outcome of cleanSQL: the statement it returns, or the error it throws.
\*   NotSelect           "SQL inválida: somente SELECT/CTE permitido."
\*   MultipleStatements  "SQL inválida: múltiplas statements."
\*   Comment             "SQL bloqueada: comentários não permitidos."
\*   BlockedPattern      "SQL bloqueada: Padrão bloqueado: <source> (match: "<m[0]>")"
Returned(s) == [kind |-> "ok", sql |-> s, reason |-> NoReason]

Thrown(e, r) == [kind |-> e, sql |-> <<>>, reason |-> r]

normalizeSql(sqlRaw) == stripTrailingSemis(trim(collapseSpaces(stripFences(sqlRaw))))

cleanSQL(sqlRaw) ==
    LET s == normalizeSql(sqlRaw)
    IN  IF ~isSelectLike(s) THEN Thrown("NotSelect", NoReason)
        ELSE IF hasMultipleStatements(s) THEN Thrown("MultipleStatements", NoReason)
        ELSE IF hasCommentMarker(s) THEN Thrown("Comment", NoReason)
        ELSE LET reason == findBlockedReason(s)
             IN  IF reason # NoReason THEN Thrown("BlockedPattern", reason)
                 ELSE Returned(s)

(***************************************************************************)
(* Policy enforcer (server.js, first revision of the file)                 *)
(***************************************************************************)
\* /count\(|sum\(|avg\(|min\(|max\(|group by/i.test(sql.toLowerCase())
AggregateMarks ==
    {Chars("count("), Chars("sum("), Chars("avg("), Chars("min("), Chars("max("),
     Chars("group by")}

looksAggregated(sql0) ==
    LET s == toLowerCase(sql0)
    IN  \E w \in AggregateMarks : includesCI(s, w)

\* length of the match of /\slimit\s+\d+/i at position i, 0 when it does not match
LimitWord == Chars("limit")

LimitLenAt(s, i) ==
    IF i <= Len(s) /\ IsSpace(s[i]) /\ IsAtCI(s, i + 1, LimitWord)
    THEN LET g == RunLen(s, i + 6, SpaceChars)
             d == RunLen(s, i + 6 + g, DigitChars)
         IN  IF g >= 1 /\ d >= 1 THEN 6 + g + d ELSE 0
    ELSE 0

hasLimit(s) == \E i \in 1..Len(s) : LimitLenAt(s, i) > 0

\* the decimal digits of a natural number, as `${limit}` renders it
RECURSIVE NumberToString(_)
NumberToString(n) ==
    LET d == SubSeq("0123456789", (n % 10) + 1, (n % 10) + 1)
    IN  IF n < 10 THEN <<d>> ELSE NumberToString(n \div 10) \o <<d>>

enforceLimit(s, limit) ==
    IF looksAggregated(s) \/ hasLimit(s) THEN s
    ELSE s \o Chars(" LIMIT ") \o NumberToString(limit)

\* sql.replace(/\slimit\s+\d+/i, ""): the first match only
removeFirstLimit(s) ==
    LET hits == {i \in 1..Len(s) : LimitLenAt(s, i) > 0}
    IN  IF hits = {} THEN s
        ELSE LET i == SetMin(hits)
             IN  SubSeq(s, 1, i - 1) \o SubSeq(s, i + LimitLenAt(s, i), Len(s))

toCountQuery(s) ==
    Chars("SELECT COUNT(*) AS total_rows FROM (") \o trim(removeFirstLimit(s)) \o Chars(") t")

TABLE_ALIASES ==
    << [from |-> Chars("chat_rfb.main.empresas"),
        to   |-> Chars("chat_rfb.main.empresas_janeiro2026")],
       [from |-> Chars("chat_rfb.main.empresas_chat"),
        to   |-> Chars("chat_rfb.main.empresas_chat_janeiro2026")] >>

RECURSIVE replaceWordFrom_Substring(_, _, _, _)
replaceWordFrom_Substring(s, i, from, to) ==
    LET hits == {j \in i..Len(s) : IsAtCI(s, j, from)}
    IN  IF hits = {} THEN SubSeq(s, i, Len(s))
        ELSE LET j == SetMin(hits)
             IN  SubSeq(s, i, j - 1) \o to \o
                 replaceWordFrom_Substring(s, j + Len(from), from, to)

\* s.replace(new RegExp(`\\b${from}\\b`, "gi"), to), scanning s from position i
RECURSIVE replaceWordFrom(_, _, _, _)
replaceWordFrom(s, i, from, to) ==
    LET hits == {j \in i..Len(s) : WordAtCI(s, j, from)}
    IN  IF hits = {} THEN SubSeq(s, i, Len(s))
        ELSE LET j == SetMin(hits)
             IN  SubSeq(s, i, j - 1) \o to \o replaceWordFrom(s, j + Len(from), from, to)

RECURSIVE applyAliasesFrom(_, _)
applyAliasesFrom(s, n) ==
    IF n > Len(TABLE_ALIASES) THEN s
    ELSE applyAliasesFrom(
            replaceWordFrom(s, 1, TABLE_ALIASES[n].from, TABLE_ALIASES[n].to), n + 1)

applyTableAliases_FirstOnly(s) ==
    replaceWordFrom(s, 1, TABLE_ALIASES[1].from, TABLE_ALIASES[1].to)

applyTableAliases(s) == applyAliasesFrom(s, 1)

AUDIT_COLS ==
    << Chars("_audit_url_download"),
       Chars("_audit_data_disponibilizacao_gov"),
       Chars("_audit_periodicidade_atualizacao_gov"),
       Chars("_audit_arquivo_csv_origem"),
       Chars("_audit_linha_csv"),
       Chars("_audit_row_hash") >>

\* /\bPortaldaTransparencia\./i.test(sql)
PortalPrefix == Chars("portaldatransparencia.")

touchesPortal(s) ==
    \E i \in 1..Len(s) : Boundary(s, i) /\ IsAtCI(s, i, PortalPrefix)

hasAllAuditCols(s) ==
    \A n \in 1..Len(AUDIT_COLS) : \E i \in 1..Len(s) : WordAtCI(s, i, AUDIT_COLS[n])

(***************************************************************************)
(* Texts under test: every concatenation of at most MaxFrags fragments     *)
(***************************************************************************)
MaxFrags == 4

AuditAll ==
    Chars(", _audit_url_download, _audit_data_disponibilizacao_gov, _audit_periodicidade_atualizacao_gov, _audit_arquivo_csv_origem, _audit_linha_csv, _audit_row_hash")

AuditSome ==
    Chars(", _audit_url_download, _audit_data_disponibilizacao_gov, _audit_periodicidade_atualizacao_gov, _audit_arquivo_csv_origem, _audit_linha_csv")

FilterFrags ==
    { Chars("select a"), Chars("With"), Chars(";"), Chars(" ;"), Chars(" "),
      Chars(" Drop"), Chars(" set"), Chars("_"), Chars("--"), Chars("/*"),
      Fence, Fence \o Chars("SQL\n") }

RECURSIVE Concats(_, _)
Concats(F, n) ==
    IF n = 0 THEN {<<>>}
    ELSE LET shorter == Concats(F, n - 1)
         IN  shorter \cup {t \o f : t \in shorter, f \in F}

FilterTexts == Concats(FilterFrags, MaxFrags)

(***************************************************************************)
(* Filter harness: cleanSQL applied to one raw completion                  *)
(***************************************************************************)
NotRun == [kind |-> "notrun", sql |-> <<>>, reason |-> NoReason]

NoResponse == [status |-> 0, error |-> "", answered |-> FALSE]

\* let totalRows = null
Null == -1

\* the requests that call queryMD
Callers == {"chat1", "chat2"}

NoCaller == "none"

DirectCallers == {"health", "listen"}

NoResult == [kind |-> "none", value |-> ""]

Idle001 ==
    /\ mdInstance = 0
    /\ mdConnReady = FALSE
    /\ attempt = 0
    /\ qpc = "idle"
    /\ log = <<>>
    /\ result = NoResult

Idle003 ==
    /\ inFlight = {}
    /\ waiting = <<>>
    /\ running = NoCaller
    /\ rejected = FALSE
    /\ tpc = [c \in Callers |-> "idle"]
    /\ dpc = [d \in DirectCallers |-> "idle"]

\* the requests that call getSchema
Requests000 == {"reqA", "reqB", "reqC"}

Idle000 ==
    /\ db = 0
    /\ dbInitPromise = "none"
    /\ instances = <<>>
    /\ gpc = [c \in Requests000 |-> "idle"]
    /\ awaiting = [c \in Requests000 |-> 0]
    /\ gotDb = [c \in Requests000 |-> 0]
    /\ resp000 = [c \in Requests000 |-> 0]

SchemaCallers == {"chatA", "chatB"}

SchemaIdle ==
    /\ cachedSchema = 0
    /\ cacheExpiry = 0
    /\ now = 0
    /\ built = 0
    /\ spc = [c \in SchemaCallers |-> "idle"]
    /\ colsLeft = [c \in SchemaCallers |-> 0]
    /\ got = [c \in SchemaCallers |-> 0]
    /\ llmOut = [c \in SchemaCallers |-> 0]
    /\ events = <<>>

DbIdle ==
    /\ mdConn = 0
    /\ opened = 0
    /\ Idle001
    /\ Idle003
    /\ SchemaIdle
    /\ Idle000

ChatIdle ==
    /\ pc = "idle"
    /\ wantTotal = FALSE
    /\ previewLimit = 0
    /\ sql = <<>>
    /\ llmSqlCalls = 0
    /\ firstDraft = "none"
    /\ executed = <<>>
    /\ response = NoResponse
    /\ previewRows = 0
    /\ bigintAt = 0
    /\ totalRows = Null
    /\ warned = FALSE
    /\ reqQuery = <<>>

FilterInit ==
    /\ raw \in FilterTexts
    /\ out = NotRun
    /\ applied = <<>>
    /\ ChatIdle
    /\ DbIdle

Sanitize ==
    /\ out = NotRun
    /\ out' = cleanSQL(raw)
    /\ UNCHANGED <<raw, applied, chatVars, schemaVars, dbVars, vars000>>

FilterNext == Sanitize

SpecFilter == FilterInit /\ [][FilterNext]_vars

(***************************************************************************)
(* Properties of the filter                                                *)
(***************************************************************************)
\* the single keywords of the denylist
DenylistWords ==
    LET B == BLOCKED_SQL_PATTERNS
        idx == {p \in (1..Len(B)) \X (1..10) :
                   /\ p[2] <= Len(B[p[1]].alts)
                   /\ Len(B[p[1]].alts[p[2]]) = 1}
    IN  {B[p[1]].alts[p[2]][1] : p \in idx}

HasWholeWord(s, w) == \E i \in 1..Len(s) : WordAtCI(s, i, w)

ContainsDenylisted(s) == \E w \in DenylistWords : HasWholeWord(s, w)

\* the reason quotes a pattern of the list and, verbatim, a denylisted keyword
\* that stands as a whole word in s
NamesKeyword(reason, s) ==
    /\ \E n \in 1..Len(BLOCKED_SQL_PATTERNS) : BLOCKED_SQL_PATTERNS[n].source = reason.source
    /\ toLowerCase(reason.match) \in DenylistWords
    /\ \E i \in 1..Len(s) :
          /\ IsAt(s, i, reason.match)
          /\ Boundary(s, i)
          /\ Boundary(s, i + Len(reason.match))

\* C2 as the spec states it: whenever the raw text holds a denylisted keyword
\* as a whole word, cleanSQL fails and its reason names that keyword.
C2_RawKeywordNamed ==
    (out # NotRun /\ ContainsDenylisted(raw)) =>
        /\ out.kind = "BlockedPattern"
        /\ NamesKeyword(out.reason, raw)

\* C2, amended: when the text left by fence removal and whitespace
\* normalisation holds a denylisted keyword as a whole word, cleanSQL never
\* returns a statement; and when that text also passes the three earlier
\* checks (select/with, single statement, no comment marker) cleanSQL fails
\* with BlockedPattern and a reason that names a pattern of the list and
\* quotes verbatim a denylisted keyword standing in the text.
C2_KeywordNamed ==
    LET n == normalizeSql(raw)
    IN  (out # NotRun /\ ContainsDenylisted(n)) =>
            /\ out.kind # "ok"
            /\ (isSelectLike(n) /\ ~hasMultipleStatements(n) /\ ~hasCommentMarker(n)) =>
                    /\ out.kind = "BlockedPattern"
                    /\ NamesKeyword(out.reason, n)

C2_Witness ==
    /\ out.kind = "BlockedPattern"
    /\ out.reason.match = Chars("Drop")
    /\ out.reason.source = BLOCKED_SQL_PATTERNS[1].source

\* C3 as the spec states it, for text that passes the select/with check: two
\* or more terminators make cleanSQL fail with MultipleStatements, and a
\* returned statement is the normalised text less at most one trailing
\* terminator.
C3_MultipleStatements ==
    LET t == trim(collapseSpaces(stripFences(raw)))
    IN  (out # NotRun /\ isSelectLike(t)) =>
            /\ CountOf(t, ";") >= 2 => out.kind = "MultipleStatements"
            /\ out.kind = "ok" => Len(t) - Len(out.sql) <= 1

(***************************************************************************)
(* POST /chat (server.js, first revision of the file).  One action per     *)
(* stretch of the handler between two awaits; the awaited collaborators    *)
(* (schema introspection, LLM, warehouse) resolve or reject.               *)
(***************************************************************************)
\* the completions the model lets the LLM return: a statement head, optional
\* audit columns, an optional source, an optional tail and an optional end
DraftHeads == {Chars("select a"), Chars("Drop a")}

DraftCols == {<<>>, AuditSome, AuditAll}

DraftSources ==
    {<<>>, Chars(" from PortaldaTransparencia.main.ceis"),
     Chars(" from chat_rfb.main.empresas")}

DraftTails == {<<>>, Chars(" Drop"), Chars(" --"), Chars(" limit 5"), Chars(" limit 500")}

DraftEnds == {<<>>, Chars(";"), Chars("; ;"), Chars("; select b")}

DraftTexts ==
    {h \o c \o f \o x \o e :
        h \in DraftHeads, c \in DraftCols, f \in DraftSources, x \in DraftTails,
        e \in DraftEnds}

DEFAULT_PREVIEW_LIMIT == 50
MAX_PREVIEW_LIMIT == 200

\* req.body.limit: absent, or a number
ReqLimits == {[given |-> FALSE, value |-> 0], [given |-> TRUE, value |-> 0],
              [given |-> TRUE, value |-> 300]}

EffectiveLimit(l) ==
    LET n == IF l.given THEN l.value ELSE DEFAULT_PREVIEW_LIMIT
        m == IF n <= 0 THEN DEFAULT_PREVIEW_LIMIT ELSE n
    IN  IF m < MAX_PREVIEW_LIMIT THEN m ELSE MAX_PREVIEW_LIMIT

Json(e) == [status |-> 200, error |-> e, answered |-> e = ""]

Status500(e) == [status |-> 500, error |-> e, answered |-> FALSE]

\* a catch block that asks for another draft instead of answering
Fail_Redraft(e) ==
    /\ pc' = "gen2"
    /\ response' = response

\* the catch block of the handler
Fail(e) ==
    /\ pc' = "done"
    /\ response' = Status500(e)

\* enforceLimit(cleanSQL(rawSql), previewLimit) followed by applyTableAliases
Prepared(s) == applyTableAliases(enforceLimit(s, previewLimit))

\* an audit check that lets every statement through
violatesAudit_Never(s) == FALSE

violatesAudit(s) == touchesPortal(s) /\ ~hasAllAuditCols(s)

\* req.body?.query: absent or empty, blank, or a question
Queries == {<<>>, <<" ", "\t", " ">>, Chars(" q ")}

\* !userQuery, with userQuery = (req.body?.query || "").trim()
isEmptyQuery(q) == trim(q) = <<>>

ChatInit ==
    /\ raw = <<>>
    /\ out = NotRun
    /\ applied = <<>>
    /\ ChatIdle
    /\ DbIdle

ChatStart ==
    /\ pc = "idle"
    /\ \E q \in Queries, total \in BOOLEAN, l \in ReqLimits :
          /\ reqQuery' = q
          /\ IF isEmptyQuery(q)
             THEN /\ pc' = "done"
                  /\ response' = Json("Query vazia")
                  /\ UNCHANGED <<wantTotal, previewLimit>>
             ELSE /\ pc' = "schema"
                  /\ wantTotal' = total
                  /\ previewLimit' = EffectiveLimit(l)
                  /\ UNCHANGED response
    /\ UNCHANGED <<sql, llmSqlCalls, firstDraft, executed, rowVars, filterVars, schemaVars, dbVars, vars000>>

\* getSchema() resolves; generateSQL is called
SchemaReturns ==
    /\ pc = "schema"
    /\ pc' = "gen1"
    /\ llmSqlCalls' = llmSqlCalls + 1
    /\ UNCHANGED <<wantTotal, previewLimit, sql, firstDraft, executed, response, rowVars, reqQuery, filterVars, schemaVars, dbVars, vars000>>

SchemaThrows ==
    /\ pc = "schema"
    /\ Fail("SchemaUnavailable")
    /\ UNCHANGED <<wantTotal, previewLimit, sql, llmSqlCalls, firstDraft, executed, rowVars, reqQuery, filterVars, schemaVars, dbVars, vars000>>

\* the first generateSQL call resolves with the text rawSql
Draft1Returns ==
    /\ pc = "gen1"
    /\ \E rawSql \in DraftTexts :
          \E r \in {cleanSQL(rawSql)} :
              IF r.kind # "ok"
              THEN /\ Fail(r.kind)
                   /\ firstDraft' = "rejected"
                   /\ UNCHANGED <<sql, llmSqlCalls, executed>>
              ELSE \E s \in {Prepared(r.sql)} :
                       /\ sql' = s
                       /\ UNCHANGED response
                       /\ IF violatesAudit(s)
                          THEN /\ firstDraft' = "auditMissing"
                               /\ llmSqlCalls' = llmSqlCalls + 1
                               /\ pc' = "gen2"
                               /\ UNCHANGED executed
                          ELSE /\ firstDraft' = "passed"
                               /\ pc' = "preview"
                               /\ executed' = Append(executed, [op |-> "preview", sql |-> s])
                               /\ UNCHANGED llmSqlCalls
    /\ UNCHANGED <<wantTotal, previewLimit, rowVars, reqQuery, filterVars, schemaVars, dbVars, vars000>>

\* a corrective step that asks for yet another draft while the audit columns
\* are missing
Draft2Returns_Again ==
    /\ pc = "gen2"
    /\ \E rawSql \in DraftTexts :
          \E r \in {cleanSQL(rawSql)} :
              IF r.kind # "ok"
              THEN /\ Fail(r.kind)
                   /\ UNCHANGED <<sql, executed, llmSqlCalls>>
              ELSE \E s \in {Prepared(r.sql)} :
                       /\ sql' = s
                       /\ UNCHANGED response
                       /\ IF violatesAudit(s)
                          THEN /\ pc' = "gen2"
                               /\ llmSqlCalls' = llmSqlCalls + 1
                               /\ UNCHANGED executed
                          ELSE /\ pc' = "preview"
                               /\ executed' = Append(executed, [op |-> "preview", sql |-> s])
                               /\ UNCHANGED llmSqlCalls
    /\ UNCHANGED <<wantTotal, previewLimit, firstDraft, rowVars, reqQuery, filterVars, schemaVars, dbVars, vars000>>

\* the corrective generateSQL call resolves with the text rawSql
Draft2Returns ==
    /\ pc = "gen2"
    /\ \E rawSql \in DraftTexts :
          \E r \in {cleanSQL(rawSql)} :
              IF r.kind # "ok"
              THEN /\ Fail(r.kind)
                   /\ UNCHANGED <<sql, executed>>
              ELSE \E s \in {Prepared(r.sql)} :
                       /\ sql' = s
                       /\ IF violatesAudit(s)
                          THEN /\ Fail("AuditColumnsMissing")
                               /\ UNCHANGED executed
                          ELSE /\ pc' = "preview"
                               /\ executed' = Append(executed, [op |-> "preview", sql |-> s])
                               /\ UNCHANGED response
    /\ UNCHANGED <<wantTotal, previewLimit, llmSqlCalls, firstDraft, rowVars, reqQuery, filterVars, schemaVars, dbVars, vars000>>

\* a generateSQL call rejects
DraftThrows ==
    /\ pc \in {"gen1", "gen2"}
    /\ Fail("LLMError")
    /\ UNCHANGED <<wantTotal, previewLimit, sql, llmSqlCalls, firstDraft, executed, rowVars, reqQuery, filterVars, schemaVars, dbVars, vars000>>

\* queryMD(sql) resolves; the count query is issued when include_total was asked
\* number of table rows the drafted statement selects, at most
MaxRows == 500

RowCounts == {0, 5, DEFAULT_PREVIEW_LIMIT, MAX_PREVIEW_LIMIT, MaxRows}

DigitString == "0123456789"

DigitValue(c) == CHOOSE d \in 0..9 : SubSeq(DigitString, d + 1, d + 1) = c

RECURSIVE ParseDigits(_, _)
ParseDigits(s, n) ==
    IF n = 0 THEN 0 ELSE 10 * ParseDigits(s, n - 1) + DigitValue(s[n])

\* start of a limit clause that closes the statement, 0 when it has none
ClosingLimitAt(s) ==
    LET hits == {i \in 1..Len(s) : LimitLenAt(s, i) > 0 /\ i + LimitLenAt(s, i) - 1 = Len(s)}
    IN  IF hits = {} THEN 0 ELSE SetMin(hits)

\* the rows the warehouse may return for a statement: a closing LIMIT n caps them at n
RowCap(s) ==
    LET i == ClosingLimitAt(s)
    IN  IF i = 0 THEN MaxRows
        ELSE LET k == RunLen(s, i + 1 + Len(LimitWord), SpaceChars)
                 from == i + 1 + Len(LimitWord) + k
             IN  ParseDigits(SubSeq(s, from, Len(s)), Len(s) - from + 1)

\* res.json({ answer, sql, rows_preview, preview_count, total_rows, ... })
Success ==
    [status |-> 200, error |-> "", answered |-> TRUE,
     sql |-> sql, preview_count |-> previewRows, total_rows |-> totalRows]

PreviewReturns ==
    /\ pc = "preview"
    /\ \E n \in RowCounts :
          /\ n <= RowCap(sql)
          /\ previewRows' = n
    /\ IF wantTotal
       THEN /\ pc' = "count"
            /\ executed' = Append(executed, [op |-> "count", sql |-> toCountQuery(sql)])
       ELSE /\ pc' = "explain"
            /\ UNCHANGED executed
    /\ UNCHANGED <<wantTotal, previewLimit, sql, llmSqlCalls, firstDraft, response, bigintAt, totalRows, warned, reqQuery, filterVars, schemaVars, dbVars, vars000>>

PreviewThrows ==
    /\ pc = "preview"
    /\ Fail("WarehouseError")
    /\ UNCHANGED <<wantTotal, previewLimit, sql, llmSqlCalls, firstDraft, executed, rowVars, reqQuery, filterVars, schemaVars, dbVars, vars000>>

CountReturns ==
    /\ pc = "count"
    /\ pc' = "explain"
    /\ \E n \in RowCounts :
          /\ n >= previewRows
          /\ totalRows' = n
    /\ UNCHANGED <<wantTotal, previewLimit, sql, llmSqlCalls, firstDraft, executed, response, previewRows, bigintAt, warned, reqQuery, filterVars, schemaVars, dbVars, vars000>>

CountThrows_Fails ==
    /\ pc = "count"
    /\ warned' = TRUE
    /\ Fail("WarehouseError")
    /\ UNCHANGED <<wantTotal, previewLimit, sql, llmSqlCalls, firstDraft, executed, previewRows, bigintAt, totalRows, reqQuery, filterVars, schemaVars, dbVars, vars000>>

CountThrows ==
    /\ pc = "count"
    /\ pc' = "explain"
    /\ warned' = TRUE
    /\ UNCHANGED <<wantTotal, previewLimit, sql, llmSqlCalls, firstDraft, executed, response, previewRows, bigintAt, totalRows, reqQuery, filterVars, schemaVars, dbVars, vars000>>

ExplainReturns ==
    /\ pc = "explain"
    /\ pc' = "done"
    /\ response' = Success
    /\ UNCHANGED <<wantTotal, previewLimit, sql, llmSqlCalls, firstDraft, executed, rowVars, reqQuery, filterVars, schemaVars, dbVars, vars000>>

ExplainThrows ==
    /\ pc = "explain"
    /\ Fail("LLMError")
    /\ UNCHANGED <<wantTotal, previewLimit, sql, llmSqlCalls, firstDraft, executed, rowVars, reqQuery, filterVars, schemaVars, dbVars, vars000>>

Next ==
    \/ ChatStart
    \/ SchemaReturns
    \/ SchemaThrows
    \/ Draft1Returns
    \/ Draft2Returns
    \/ DraftThrows
    \/ PreviewReturns
    \/ PreviewThrows
    \/ CountReturns
    \/ CountThrows
    \/ ExplainReturns
    \/ ExplainThrows

Spec == ChatInit /\ [][Next]_vars

(***************************************************************************)
(* Properties of POST /chat                                                *)
(***************************************************************************)
Previews == {k \in 1..Len(executed) : executed[k].op = "preview"}

FilterErrors == {"NotSelect", "MultipleStatements", "Comment", "BlockedPattern"}

\* C4 as the spec states it: a statement handed to the warehouse as the
\* preview query holds no ';' other than, at most, one as its last character.
C4_NoInnerTerminator ==
    \A k \in Previews :
        \A i \in 1..(Len(executed[k].sql) - 1) : executed[k].sql[i] # ";"

\* C5: no statement that references PortaldaTransparencia and lacks one of
\* the six audit columns is run as a preview, a count query only ever wraps
\* the preview statement run just before it, and a request that ends with
\* AuditColumnsMissing ends after the corrective re-prompt, on a statement
\* that still lacks a column, having run nothing on the warehouse.
C5_AuditPolicy ==
    /\ \A k \in Previews :
          touchesPortal(executed[k].sql) => hasAllAuditCols(executed[k].sql)
    /\ \A k \in (1..Len(executed)) \ Previews :
          /\ k - 1 \in Previews
          /\ executed[k].sql = toCountQuery(executed[k - 1].sql)
    /\ response.error = "AuditColumnsMissing" =>
          /\ pc = "done"
          /\ response.status = 500
          /\ firstDraft = "auditMissing"
          /\ touchesPortal(sql) /\ ~hasAllAuditCols(sql)
          /\ executed = <<>>

C5_Witness ==
    /\ response.error = "AuditColumnsMissing"
    /\ llmSqlCalls = 2
    /\ \E n \in 1..5 : HasWholeWord(sql, AUDIT_COLS[n])

\* C6: a request issues at most two SQL-drafting LLM calls; it issues the
\* second one exactly when its first validated statement references
\* PortaldaTransparencia without all audit columns, and then it either goes
\* on to the preview or fails with AuditColumnsMissing; a request whose first
\* validated statement satisfies the policy issues exactly one.
C6_OneReprompt ==
    /\ llmSqlCalls <= 2
    /\ firstDraft = "passed" => llmSqlCalls = 1
    /\ firstDraft = "auditMissing" => llmSqlCalls = 2
    /\ llmSqlCalls = 2 => firstDraft = "auditMissing"
    /\ response.error = "AuditColumnsMissing" => llmSqlCalls = 2
    /\ (firstDraft = "auditMissing" /\ Previews # {}) =>
          ~(touchesPortal(sql) /\ ~hasAllAuditCols(sql))

C6_Witness ==
    /\ pc = "done"
    /\ response.answered
    /\ firstDraft = "auditMissing"
    /\ llmSqlCalls = 2
    /\ Previews # {}

\* C7: once the filter has rejected the first draft the request is over with
\* a 500 answer carrying the filter's error; one SQL-drafting call was made
\* and nothing was run on the warehouse.
C7_RejectionIsFinal ==
    firstDraft = "rejected" =>
        /\ pc = "done"
        /\ response.status = 500
        /\ response.error \in FilterErrors
        /\ ~response.answered
        /\ llmSqlCalls = 1
        /\ executed = <<>>

C7_Witness ==
    /\ firstDraft = "rejected"
    /\ response.error = "MultipleStatements"
    /\ pc = "done"

\* C13: when the summarizing LLM call fails after the statement has been
\* executed, the request does not fail: every way out of the explain step is
\* a success response with an answer.
C13_ExplainFailureDegrades ==
    [][(pc = "explain" /\ pc' = "done") =>
          (response'.status = 200 /\ response'.answered)]_vars

\* C14: when include_total is requested and the count query fails, the
\* handler goes on to the explain step with totalRows null and with sql and
\* the preview rows untouched, and a success response then carries
\* total_rows = null with the sql that was previewed and its preview rows.
C14_CountFailureIsNull ==
    /\ [][(pc = "count" /\ warned') =>
             /\ pc' = "explain"
             /\ totalRows' = Null
             /\ sql' = sql
             /\ previewRows' = previewRows
             /\ response' = NoResponse]_vars
    /\ []((warned /\ response.status = 200) =>
             /\ response.answered
             /\ response.total_rows = Null
             /\ response.sql = sql
             /\ response.preview_count = previewRows
             /\ \E k \in Previews : executed[k].sql = response.sql)

C14_Witness ==
    /\ wantTotal
    /\ warned
    /\ response.status = 200
    /\ response.answered
    /\ response.preview_count > 0

\* C17: in every success response the number of preview rows is at most the
\* request's effective preview limit.
C17_PreviewBounded ==
    (response.status = 200 /\ response.answered) =>
        response.preview_count <= previewLimit


(***************************************************************************)
(* POST /chat of the Hetzner variant (unnamed/part_004): its own cleanSQL, *)
(* no limit enforcement, no alias rewriting, no audit policy.              *)
(***************************************************************************)
BlockedSubstrings004 ==
    {Chars("insert"), Chars("update"), Chars("delete"), Chars("drop"), Chars("alter"),
     Chars("create")}

SelectWord004 == Chars("select")

\* kinds: "SqlInvalida" is "SQL inválida", "OperacaoBloqueada" is "Operação bloqueada"
cleanSQL004(sqlRaw) ==
    LET s == stripTrailingSemis(trim(removeFences(sqlRaw)))
    IN  IF ~includesCI(s, SelectWord004) THEN Thrown("SqlInvalida", NoReason)
        ELSE IF \E w \in BlockedSubstrings004 : includesCI(s, w)
             THEN Thrown("OperacaoBloqueada", NoReason)
        ELSE Returned(s)

Chat004Start ==
    /\ pc = "idle"
    /\ \E empty \in BOOLEAN :
          IF empty
          THEN /\ pc' = "done"
               /\ response' = Json("Query vazia")
          ELSE /\ pc' = "schema004"
               /\ UNCHANGED response
    /\ UNCHANGED <<wantTotal, previewLimit, sql, llmSqlCalls, firstDraft, executed, rowVars, reqQuery, filterVars, schemaVars, dbVars, vars000>>

\* getRFBSchema(query) resolves; the SQL completion is requested
Schema004Returns ==
    /\ pc = "schema004"
    /\ pc' = "gen004"
    /\ llmSqlCalls' = llmSqlCalls + 1
    /\ UNCHANGED <<wantTotal, previewLimit, sql, firstDraft, executed, response, rowVars, reqQuery, filterVars, schemaVars, dbVars, vars000>>

Schema004Throws ==
    /\ pc = "schema004"
    /\ Fail("SchemaUnavailable")
    /\ UNCHANGED <<wantTotal, previewLimit, sql, llmSqlCalls, firstDraft, executed, rowVars, reqQuery, filterVars, schemaVars, dbVars, vars000>>

\* the completion resolves with the text rawSql; the cleaned text goes to queryHetzner
Draft004Returns ==
    /\ pc = "gen004"
    /\ \E rawSql \in DraftTexts :
          \E r \in {cleanSQL004(rawSql)} :
              IF r.kind # "ok"
              THEN /\ Fail(r.kind)
                   /\ firstDraft' = "rejected"
                   /\ UNCHANGED <<sql, executed>>
              ELSE /\ sql' = r.sql
                   /\ firstDraft' = "passed"
                   /\ pc' = "query004"
                   /\ executed' = Append(executed, [op |-> "preview", sql |-> r.sql])
                   /\ UNCHANGED response
    /\ UNCHANGED <<wantTotal, previewLimit, llmSqlCalls, rowVars, reqQuery, filterVars, schemaVars, dbVars, vars000>>

Draft004Throws ==
    /\ pc = "gen004"
    /\ Fail("LLMError")
    /\ UNCHANGED <<wantTotal, previewLimit, sql, llmSqlCalls, firstDraft, executed, rowVars, reqQuery, filterVars, schemaVars, dbVars, vars000>>

Query004Returns ==
    /\ pc = "query004"
    /\ pc' = "explain004"
    /\ UNCHANGED <<wantTotal, previewLimit, sql, llmSqlCalls, firstDraft, executed, response, rowVars, reqQuery, filterVars, schemaVars, dbVars, vars000>>

Query004Throws ==
    /\ pc = "query004"
    /\ Fail("WarehouseError")
    /\ UNCHANGED <<wantTotal, previewLimit, sql, llmSqlCalls, firstDraft, executed, rowVars, reqQuery, filterVars, schemaVars, dbVars, vars000>>

Explain004Returns ==
    /\ pc = "explain004"
    /\ pc' = "done"
    /\ response' = Json("")
    /\ UNCHANGED <<wantTotal, previewLimit, sql, llmSqlCalls, firstDraft, executed, rowVars, reqQuery, filterVars, schemaVars, dbVars, vars000>>

Explain004Throws ==
    /\ pc = "explain004"
    /\ Fail("LLMError")
    /\ UNCHANGED <<wantTotal, previewLimit, sql, llmSqlCalls, firstDraft, executed, rowVars, reqQuery, filterVars, schemaVars, dbVars, vars000>>

Next004 ==
    \/ Chat004Start
    \/ Schema004Returns
    \/ Schema004Throws
    \/ Draft004Returns
    \/ Draft004Throws
    \/ Query004Returns
    \/ Query004Throws
    \/ Explain004Returns
    \/ Explain004Throws

Spec004 == ChatInit /\ [][Next004]_vars

BeginsSelectOrWith(s) == \E w \in SelectWords : IsAtCI(s, 1, w)

\* C1 as the spec states it: every statement sent to the warehouse as the
\* preview query begins, whatever the case, with select or with, holds no
\* "--" or "/*" comment marker and holds no denylisted keyword as a whole word.
C1_PreviewIsSafe ==
    \A k \in Previews :
        /\ BeginsSelectOrWith(executed[k].sql)
        /\ ~hasCommentMarker(executed[k].sql)
        /\ ~ContainsDenylisted(executed[k].sql)

(***************************************************************************)
(* queryMD of unnamed/part_001: one persistent connection, at most         *)
(* MAX_ATTEMPTS attempts, ensureConn before each of them.                  *)
(***************************************************************************)
MAX_ATTEMPTS == 3

MaxHandles == 2

\* messages of the errors the driver raises
ClosedMessage == "Connection Error: Connection was never established or has been closed already"

ErrorMessages == {ClosedMessage, "IO Error: ETIMEDOUT", "Binder Error: column not found"}

RowSets == {"rowsA", "rowsB"}

ConnMarks001 ==
    {Chars("connection was never established"), Chars("has been closed already"),
     Chars("connection error"), Chars("econnreset"), Chars("etimedout"),
     Chars("timeout"), Chars("network")}

\* an isConnError that takes every error for a connection error
isConnError001_Always(msg) == TRUE

isConnError001(msg) ==
    LET m == toLowerCase(Chars(msg))
    IN  \E w \in ConnMarks001 : includes(m, w)

Attempted(phase, outcome, value) ==
    [conn |-> mdConn, phase |-> phase, outcome |-> outcome, value |-> value]

\* await ensureConn() and, when it returns at once, mdConn.all(sql)
EnsureThenRun ==
    IF mdConnReady /\ mdConn # 0
    THEN /\ qpc' = "all"
         /\ UNCHANGED <<mdConnReady, mdConn, mdInstance>>
    ELSE /\ mdConnReady' = FALSE
         /\ mdConn' = 0
         /\ mdInstance' = 0
         /\ qpc' = "create"

\* the catch block of queryMD
Catch001(phase, e) ==
    /\ log' = Append(log, Attempted(phase, "error", e))
    /\ IF attempt < MAX_ATTEMPTS /\ isConnError001(e)
       THEN /\ qpc' = "backoff"
            /\ UNCHANGED result
       ELSE /\ qpc' = "thrown"
            /\ result' = [kind |-> "error", value |-> e]

QueryMDCall ==
    /\ qpc \in {"idle", "returned", "thrown"}
    /\ attempt' = 1
    /\ log' = <<>>
    /\ result' = NoResult
    /\ EnsureThenRun
    /\ UNCHANGED <<opened, vars003, filterVars, schemaVars, chatVars, vars000>>

\* DuckDBInstance.create resolves
CreateReturns ==
    /\ qpc = "create"
    /\ mdInstance' = 1
    /\ qpc' = "connect"
    /\ UNCHANGED <<mdConn, opened, mdConnReady, attempt, log, result, vars003, filterVars, schemaVars, chatVars, vars000>>

CreateThrows ==
    /\ qpc = "create"
    /\ \E e \in ErrorMessages : Catch001("create", e)
    /\ UNCHANGED <<mdConn, opened, mdInstance, mdConnReady, attempt, vars003, filterVars, schemaVars, chatVars, vars000>>

\* mdInstance.connect() resolves with a new handle; mdConn.all(sql) is issued
ConnectReturns ==
    /\ qpc = "connect"
    /\ opened < MaxHandles
    /\ opened' = opened + 1
    /\ mdConn' = opened + 1
    /\ mdConnReady' = TRUE
    /\ qpc' = "all"
    /\ UNCHANGED <<mdInstance, attempt, log, result, vars003, filterVars, schemaVars, chatVars, vars000>>

ConnectThrows ==
    /\ qpc = "connect"
    /\ \E e \in ErrorMessages : Catch001("connect", e)
    /\ UNCHANGED <<mdConn, opened, mdInstance, mdConnReady, attempt, vars003, filterVars, schemaVars, chatVars, vars000>>

\* mdConn.all(sql) resolves with rows
AllReturns ==
    /\ qpc = "all"
    /\ \E rows \in RowSets :
          /\ log' = Append(log, Attempted("all", "rows", rows))
          /\ result' = [kind |-> "rows", value |-> rows]
    /\ qpc' = "returned"
    /\ UNCHANGED <<mdConn, opened, mdInstance, mdConnReady, attempt, vars003, filterVars, schemaVars, chatVars, vars000>>

AllThrows ==
    /\ qpc = "all"
    /\ \E e \in ErrorMessages : Catch001("all", e)
    /\ UNCHANGED <<mdConn, opened, mdInstance, mdConnReady, attempt, vars003, filterVars, schemaVars, chatVars, vars000>>

\* the timer of 500 * attempt ms fires: queryMD(sql, attempt + 1)
BackoffElapses ==
    /\ qpc = "backoff"
    /\ attempt' = attempt + 1
    /\ EnsureThenRun
    /\ UNCHANGED <<opened, log, result, vars003, filterVars, schemaVars, chatVars, vars000>>

Next001 ==
    \/ QueryMDCall
    \/ CreateReturns
    \/ CreateThrows
    \/ ConnectReturns
    \/ ConnectThrows
    \/ AllReturns
    \/ AllThrows
    \/ BackoffElapses

Init001 ==
    /\ raw = <<>>
    /\ out = NotRun
    /\ applied = <<>>
    /\ ChatIdle
    /\ DbIdle

Spec001 == Init001 /\ [][Next001]_vars

\* the messages of ErrorMessages that report a lost or unreachable connection
ConnectionClass == {ClosedMessage, "IO Error: ETIMEDOUT"}

LastAttempt == log[Len(log)]

\* C9: queryMD makes at most three attempts; every attempt but the last one
\* failed with a connection-class error; when it returns, the last attempt
\* succeeded and its rows are what is returned; when it throws, it throws the
\* error of the last attempt, which is not a connection-class error or is the
\* error of the third attempt; it waits for another attempt only after a
\* connection-class error on an attempt before the third.
C9_BoundedAttempts ==
    /\ Len(log) <= 3
    /\ attempt <= 3
    /\ \A k \in 1..(Len(log) - 1) :
          log[k].outcome = "error" /\ log[k].value \in ConnectionClass
    /\ qpc = "returned" =>
          /\ Len(log) = attempt
          /\ LastAttempt.outcome = "rows"
          /\ result = [kind |-> "rows", value |-> LastAttempt.value]
    /\ qpc = "thrown" =>
          /\ Len(log) = attempt
          /\ LastAttempt.outcome = "error"
          /\ result = [kind |-> "error", value |-> LastAttempt.value]
          /\ LastAttempt.value \notin ConnectionClass \/ Len(log) = 3
    /\ qpc = "backoff" =>
          /\ Len(log) = attempt
          /\ Len(log) < 3
          /\ LastAttempt.outcome = "error"
          /\ LastAttempt.value \in ConnectionClass

C9_Witness ==
    /\ qpc = "returned"
    /\ Len(log) = 3
    /\ log[1].value = ClosedMessage
    /\ result.kind = "rows"

\* C10 as the spec states it: after a statement has failed on the connection
\* with a connection-closed or never-established error, the next attempt
\* runs on another handle than the one that failed.
C10_RetryOnNewHandle ==
    \A k \in 1..(Len(log) - 1) :
        (log[k].phase = "all" /\ log[k].value = ClosedMessage /\ log[k + 1].phase = "all") =>
            log[k + 1].conn # log[k].conn

(***************************************************************************)
(* The connection layer of unnamed/part_003: one persistent handle mdConn, *)
(* queryMD chained on the promise mdQueue, ensureConn also called directly *)
(* by GET /health and by the callback of app.listen.                       *)
(***************************************************************************)
ConnMarks003 ==
    {Chars("connection was never established"), Chars("has been closed already"),
     Chars("connection error"), Chars("socket"), Chars("timeout")}

isConnError003(msg) ==
    LET m == toLowerCase(Chars(msg))
    IN  \E w \in ConnMarks003 : includes(m, w)

Statement(by, kind, h) == [by |-> by, kind |-> kind, conn |-> h]

Settled(by) == {f \in inFlight : f.by # by}

\* ensureConn() called by `by` while mdConn is null: db.connect() and the probe
OpenAndProbe(by) ==
    /\ opened < MaxHandles
    /\ opened' = opened + 1
    /\ mdConn' = opened + 1
    /\ inFlight' = Settled(by) \cup {Statement(by, "probe", opened + 1)}

\* conn.all(sql) on the handle ensureConn returned
RunStatement(by) ==
    /\ inFlight' = Settled(by) \cup {Statement(by, "stmt", mdConn)}
    /\ UNCHANGED <<mdConn, opened>>

\* the callback of the running caller throws: mdQueue settles as rejected
TaskThrows(c) ==
    /\ tpc' = [tpc EXCEPT ![c] = "failed"]
    /\ running' = NoCaller
    /\ rejected' = TRUE
    /\ inFlight' = Settled(c)
    /\ UNCHANGED <<mdConn, opened>>

\* the catch block of the callback: reconnectConn() on a connection error
Catch003(c, e) ==
    IF isConnError003(e)
    THEN /\ OpenAndProbe(c)
         /\ tpc' = [tpc EXCEPT ![c] = "probe2"]
         /\ UNCHANGED <<running, rejected>>
    ELSE TaskThrows(c)

\* queryMD(sql): the callback is chained on mdQueue
CallQueryMD ==
    /\ dpc["listen"] # "idle"
    /\ \E c \in Callers :
          /\ tpc[c] \in {"idle", "done", "failed"}
          /\ waiting' = Append(waiting, c)
          /\ tpc' = [tpc EXCEPT ![c] = "queued"]
    /\ UNCHANGED <<mdConn, opened, inFlight, running, rejected, dpc, vars001, filterVars, schemaVars, chatVars, vars000>>

\* the promise before the first waiting callback has fulfilled: the callback starts
TaskBegins ==
    /\ running = NoCaller
    /\ waiting # <<>>
    /\ ~rejected
    /\ running' = Head(waiting)
    /\ waiting' = Tail(waiting)
    /\ IF mdConn # 0
       THEN /\ RunStatement(Head(waiting))
            /\ tpc' = [tpc EXCEPT ![Head(waiting)] = "stmt1"]
       ELSE /\ OpenAndProbe(Head(waiting))
            /\ tpc' = [tpc EXCEPT ![Head(waiting)] = "probe1"]
    /\ UNCHANGED <<rejected, dpc, vars001, filterVars, schemaVars, chatVars, vars000>>

\* the promise before the first waiting callback has rejected: the callback is skipped
TaskSkipped ==
    /\ running = NoCaller
    /\ waiting # <<>>
    /\ rejected
    /\ waiting' = Tail(waiting)
    /\ tpc' = [tpc EXCEPT ![Head(waiting)] = "failed"]
    /\ UNCHANGED <<mdConn, opened, inFlight, running, rejected, dpc, vars001, filterVars, schemaVars, chatVars, vars000>>

ProbeReturns ==
    /\ \E c \in Callers :
          /\ tpc[c] \in {"probe1", "probe2"}
          /\ RunStatement(c)
          /\ tpc' = [tpc EXCEPT ![c] = IF tpc[c] = "probe1" THEN "stmt1" ELSE "stmt2"]
    /\ UNCHANGED <<waiting, running, rejected, dpc, vars001, filterVars, schemaVars, chatVars, vars000>>

StatementReturns ==
    /\ \E c \in Callers :
          /\ tpc[c] \in {"stmt1", "stmt2"}
          /\ inFlight' = Settled(c)
          /\ tpc' = [tpc EXCEPT ![c] = "done"]
    /\ running' = NoCaller
    /\ UNCHANGED <<mdConn, opened, waiting, rejected, dpc, vars001, filterVars, schemaVars, chatVars, vars000>>

\* the first probe or the first run of the statement fails
FirstTryThrows ==
    /\ \E c \in Callers, e \in ErrorMessages :
          /\ tpc[c] \in {"probe1", "stmt1"}
          /\ Catch003(c, e)
    /\ UNCHANGED <<waiting, dpc, vars001, filterVars, schemaVars, chatVars, vars000>>

\* the probe or the statement fails after reconnectConn
SecondTryThrows ==
    /\ \E c \in Callers :
          /\ tpc[c] \in {"probe2", "stmt2"}
          /\ TaskThrows(c)
    /\ UNCHANGED <<waiting, dpc, vars001, filterVars, schemaVars, chatVars, vars000>>

\* GET /health, or the callback of app.listen, calls ensureConn()
DirectEnsure ==
    /\ \E d \in DirectCallers :
          /\ IF d = "listen" THEN dpc[d] = "idle"
             ELSE dpc["listen"] # "idle" /\ dpc[d] \in {"idle", "ok", "failed"}
          /\ IF mdConn # 0
             THEN /\ dpc' = [dpc EXCEPT ![d] = "ok"]
                  /\ UNCHANGED <<mdConn, opened, inFlight>>
             ELSE /\ OpenAndProbe(d)
                  /\ dpc' = [dpc EXCEPT ![d] = "probing"]
    /\ UNCHANGED <<waiting, running, rejected, tpc, vars001, filterVars, schemaVars, chatVars, vars000>>

DirectProbeReturns ==
    /\ \E d \in DirectCallers :
          /\ dpc[d] = "probing"
          /\ inFlight' = Settled(d)
          /\ dpc' = [dpc EXCEPT ![d] = "ok"]
    /\ UNCHANGED <<mdConn, opened, waiting, running, rejected, tpc, vars001, filterVars, schemaVars, chatVars, vars000>>

DirectProbeThrows ==
    /\ \E d \in DirectCallers :
          /\ dpc[d] = "probing"
          /\ inFlight' = Settled(d)
          /\ dpc' = [dpc EXCEPT ![d] = "failed"]
    /\ UNCHANGED <<mdConn, opened, waiting, running, rejected, tpc, vars001, filterVars, schemaVars, chatVars, vars000>>

Next003 ==
    \/ CallQueryMD
    \/ TaskBegins
    \/ TaskSkipped
    \/ ProbeReturns
    \/ StatementReturns
    \/ FirstTryThrows
    \/ SecondTryThrows
    \/ DirectEnsure
    \/ DirectProbeReturns
    \/ DirectProbeThrows

Init003 ==
    /\ raw = <<>>
    /\ out = NotRun
    /\ applied = <<>>
    /\ ChatIdle
    /\ DbIdle

Spec003 == Init003 /\ [][Next003]_vars

\* C8 as the spec states it: at every moment at most one statement, probes
\* of ensureConn included, is in flight on a connection handle.
C8_OneInFlight ==
    \A h \in 1..opened : Cardinality({f \in inFlight : f.conn = h}) <= 1

\* C24 as the spec states it: a failing statement affects only its own
\* caller, so a queryMD call that is waiting in the queue always goes on to
\* have its own statement run (after the probe when no handle is open); it is
\* never settled without it.
C24_FailureIsolated ==
    [][\A c \in Callers :
          tpc[c] = "queued" => tpc'[c] \in {"queued", "probe1", "stmt1"}]_vars

\* C26 as the spec states it: whenever ensureConn hands the shared handle to
\* a caller (queryMD goes on to run its statement, /health or the startup
\* callback gets its answer), no probe on that handle is still in flight.
C26_HandleOnlyAfterProbe ==
    [][(\/ \E d \in DirectCallers : dpc[d] # "ok" /\ dpc'[d] = "ok"
        \/ \E c \in Callers : tpc[c] # "stmt1" /\ tpc'[c] = "stmt1")
       => ~\E f \in inFlight' : f.kind = "probe" /\ f.conn = mdConn']_vars

(***************************************************************************)
(* The drafting stretch of /chat in part_003 (part_001 lines 326-334 read  *)
(* the same): the check after the corrective draft asks for the audit      *)
(* columns without asking whether the statement references the Portal.     *)
(***************************************************************************)
\* the corrective generateSQL call resolves with the text rawSql
Draft2Returns003 ==
    /\ pc = "gen2"
    /\ \E rawSql \in DraftTexts :
          \E r \in {cleanSQL(rawSql)} :
              IF r.kind # "ok"
              THEN /\ Fail(r.kind)
                   /\ UNCHANGED <<sql, executed>>
              ELSE \E s \in {Prepared(r.sql)} :
                       /\ sql' = s
                       /\ IF ~hasAllAuditCols(s)
                          THEN /\ Fail("AuditColumnsMissing")
                               /\ UNCHANGED executed
                          ELSE /\ pc' = "preview"
                               /\ executed' = Append(executed, [op |-> "preview", sql |-> s])
                               /\ UNCHANGED response
    /\ UNCHANGED <<wantTotal, previewLimit, llmSqlCalls, firstDraft, rowVars, reqQuery, filterVars, schemaVars, dbVars, vars000>>

NextDraft003 ==
    \/ ChatStart
    \/ SchemaReturns
    \/ SchemaThrows
    \/ Draft1Returns
    \/ Draft2Returns003
    \/ DraftThrows

SpecDraft003 == ChatInit /\ [][NextDraft003]_vars

\* C25 as the spec states it: provenance columns are demanded only of
\* statements that reference the regulated source, so a request fails with
\* AuditColumnsMissing only on a corrective draft that references the Portal.
C25_AuditOnlyForPortal ==
    response.error = "AuditColumnsMissing" => touchesPortal(sql)

(***************************************************************************)
(* POST /chat of part_001, the whole handler.  The rows of queryMD go to   *)
(* JSON.stringify and to res.json as the warehouse returned them.          *)
(***************************************************************************)
\* Math.min(Math.max(Number(req.body?.limit ?? 50), 1), 200)
ClampLimit001(l) ==
    LET n == IF l.given THEN l.value ELSE DEFAULT_PREVIEW_LIMIT
        m == IF n > 1 THEN n ELSE 1
    IN  IF m < MAX_PREVIEW_LIMIT THEN m ELSE MAX_PREVIEW_LIMIT

Chat001Start ==
    /\ pc = "idle"
    /\ \E q \in Queries, total \in BOOLEAN, l \in ReqLimits :
          /\ reqQuery' = q
          /\ IF isEmptyQuery(q)
             THEN /\ pc' = "done"
                  /\ response' = Json("Query vazia")
                  /\ UNCHANGED <<wantTotal, previewLimit>>
             ELSE /\ pc' = "schema"
                  /\ wantTotal' = total
                  /\ previewLimit' = ClampLimit001(l)
                  /\ UNCHANGED response
    /\ UNCHANGED <<sql, llmSqlCalls, firstDraft, executed, rowVars, filterVars, schemaVars, dbVars, vars000>>

\* the texts the drafting calls of this handler are given to return
Draft001Texts ==
    {h \o c \o f \o x :
        h \in DraftHeads, c \in {<<>>, AuditAll}, f \in DraftSources,
        x \in {<<>>, Chars(" limit 5")}}

\* the first generateSQL call resolves with the text rawSql
Draft1Returns001 ==
    /\ pc = "gen1"
    /\ \E rawSql \in Draft001Texts :
          \E r \in {cleanSQL(rawSql)} :
              IF r.kind # "ok"
              THEN /\ Fail(r.kind)
                   /\ firstDraft' = "rejected"
                   /\ UNCHANGED <<sql, llmSqlCalls, executed>>
              ELSE \E s \in {Prepared(r.sql)} :
                       /\ sql' = s
                       /\ UNCHANGED response
                       /\ IF violatesAudit(s)
                          THEN /\ firstDraft' = "auditMissing"
                               /\ llmSqlCalls' = llmSqlCalls + 1
                               /\ pc' = "gen2"
                               /\ UNCHANGED executed
                          ELSE /\ firstDraft' = "passed"
                               /\ pc' = "preview"
                               /\ executed' = Append(executed, [op |-> "preview", sql |-> s])
                               /\ UNCHANGED llmSqlCalls
    /\ UNCHANGED <<wantTotal, previewLimit, rowVars, reqQuery, filterVars, schemaVars, dbVars, vars000>>

\* the corrective generateSQL call resolves with the text rawSql
Draft2Returns001 ==
    /\ pc = "gen2"
    /\ \E rawSql \in Draft001Texts :
          \E r \in {cleanSQL(rawSql)} :
              IF r.kind # "ok"
              THEN /\ Fail(r.kind)
                   /\ UNCHANGED <<sql, executed>>
              ELSE \E s \in {Prepared(r.sql)} :
                       /\ sql' = s
                       /\ IF ~hasAllAuditCols(s)
                          THEN /\ Fail("AuditColumnsMissing")
                               /\ UNCHANGED executed
                          ELSE /\ pc' = "preview"
                               /\ executed' = Append(executed, [op |-> "preview", sql |-> s])
                               /\ UNCHANGED response
    /\ UNCHANGED <<wantTotal, previewLimit, llmSqlCalls, firstDraft, rowVars, reqQuery, filterVars, schemaVars, dbVars, vars000>>

\* where the first BigInt of n rows may stand: nowhere, in the first row, or
\* in the sixth
BigIntPlaces(n) == {i \in {0, 1, 6} : i <= n}

\* the prompt of the summarizing call is built with
\* JSON.stringify(rows_preview.slice(0, 5)), which throws on a BigInt
Summarize001(at) ==
    IF at \in 1..5
    THEN Fail("BigIntSerialize")
    ELSE /\ pc' = "explain"
         /\ UNCHANGED response

Preview001Returns ==
    /\ pc = "preview"
    /\ \E n \in RowCounts :
          /\ n <= RowCap(sql)
          /\ previewRows' = n
          /\ \E at \in BigIntPlaces(n) :
                /\ bigintAt' = at
                /\ IF wantTotal
                   THEN /\ pc' = "count"
                        /\ executed' = Append(executed, [op |-> "count", sql |-> toCountQuery(sql)])
                        /\ UNCHANGED response
                   ELSE /\ Summarize001(at)
                        /\ UNCHANGED executed
    /\ UNCHANGED <<wantTotal, previewLimit, sql, llmSqlCalls, firstDraft, totalRows, warned, reqQuery, filterVars, schemaVars, dbVars, vars000>>

Count001Returns ==
    /\ pc = "count"
    /\ \E n \in RowCounts :
          /\ n >= previewRows
          /\ totalRows' = n
    /\ Summarize001(bigintAt)
    /\ UNCHANGED <<wantTotal, previewLimit, sql, llmSqlCalls, firstDraft, executed, previewRows, bigintAt, warned, reqQuery, filterVars, schemaVars, dbVars, vars000>>

Count001Throws ==
    /\ pc = "count"
    /\ warned' = TRUE
    /\ Summarize001(bigintAt)
    /\ UNCHANGED <<wantTotal, previewLimit, sql, llmSqlCalls, firstDraft, executed, previewRows, bigintAt, totalRows, reqQuery, filterVars, schemaVars, dbVars, vars000>>

\* the summarizing call resolves: res.json({ answer, sql, rows_preview, ... })
\* throws on a BigInt, and the catch block answers
Explain001Returns ==
    /\ pc = "explain"
    /\ IF bigintAt # 0
       THEN Fail("BigIntSerialize")
       ELSE /\ pc' = "done"
            /\ response' = Success
    /\ UNCHANGED <<wantTotal, previewLimit, sql, llmSqlCalls, firstDraft, executed, rowVars, reqQuery, filterVars, schemaVars, dbVars, vars000>>

NextChat001 ==
    \/ Chat001Start
    \/ SchemaReturns
    \/ SchemaThrows
    \/ Draft1Returns001
    \/ Draft2Returns001
    \/ DraftThrows
    \/ Preview001Returns
    \/ PreviewThrows
    \/ Count001Returns
    \/ Count001Throws
    \/ Explain001Returns
    \/ ExplainThrows

\* the settling of a call to the warehouse or of the summarizing call
Settle001 ==
    \/ Preview001Returns
    \/ PreviewThrows
    \/ Count001Returns
    \/ Count001Throws
    \/ Explain001Returns
    \/ ExplainThrows

\* every call the handler awaits after the drafting settles
SpecChat001 == ChatInit /\ [][NextChat001]_vars /\ WF_vars(Settle001)

\* C30 as the spec states it: once the schema was read, the draft has passed
\* the filter and the policy, the warehouse has run it and the summarizing
\* call is made, the request is eventually answered, and with the success
\* body unless the summarizing call fails.
C30_EventuallySuccess ==
    (pc = "explain") ~> (pc = "done" /\ (response.answered \/ response.error = "LLMError"))

(***************************************************************************)
(* The schema cache of server.js (first revision): getSchema as /chat      *)
(* calls it, POST /clear-cache, and the clock.                             *)
(***************************************************************************)
CACHE_DURATION == 3600000

\* the clock advances by half the cache duration at a time
ClockStep == CACHE_DURATION \div 2

MaxTicks == 3

MaxTables == 2

MaxEvents == 4

CacheValid == cachedSchema # 0 /\ now < cacheExpiry

Called(c, hit) == [op |-> "call", by |-> c, hit |-> hit]

Cleared == [op |-> "clear", by |-> "admin", hit |-> FALSE]

\* the end of getSchema: the description is stored and returned, and /chat
\* goes on to generateSQL
StoreAndReturn(c) ==
    /\ built' = built + 1
    /\ cachedSchema' = built + 1
    /\ cacheExpiry' = now + CACHE_DURATION
    /\ got' = [got EXCEPT ![c] = built + 1]
    /\ llmOut' = [llmOut EXCEPT ![c] = 1]
    /\ spc' = [spc EXCEPT ![c] = "gen"]

\* POST /chat calls getSchema()
GetSchemaCall ==
    /\ Len(events) < MaxEvents
    /\ \E c \in SchemaCallers :
          /\ spc[c] \in {"idle", "gen", "failed"}
          /\ events' = Append(events, Called(c, CacheValid))
          /\ IF CacheValid
             THEN /\ got' = [got EXCEPT ![c] = cachedSchema]
                  /\ llmOut' = [llmOut EXCEPT ![c] = 1]
                  /\ spc' = [spc EXCEPT ![c] = "gen"]
             ELSE /\ got' = [got EXCEPT ![c] = 0]
                  /\ llmOut' = [llmOut EXCEPT ![c] = 0]
                  /\ spc' = [spc EXCEPT ![c] = "tables"]
    /\ UNCHANGED <<cachedSchema, cacheExpiry, now, built, colsLeft, filterVars, chatVars, dbVars, vars000>>

\* the query on information_schema.tables resolves with n rows
TablesReturn ==
    /\ \E c \in SchemaCallers, n \in 0..MaxTables :
          /\ spc[c] = "tables"
          /\ IF n = 0
             THEN /\ StoreAndReturn(c)
                  /\ UNCHANGED colsLeft
             ELSE /\ colsLeft' = [colsLeft EXCEPT ![c] = n]
                  /\ spc' = [spc EXCEPT ![c] = "columns"]
                  /\ UNCHANGED <<cachedSchema, cacheExpiry, built, got, llmOut>>
    /\ UNCHANGED <<now, events, filterVars, chatVars, dbVars, vars000>>

\* one query on information_schema.columns resolves
ColumnsReturn ==
    /\ \E c \in SchemaCallers :
          /\ spc[c] = "columns"
          /\ colsLeft' = [colsLeft EXCEPT ![c] = colsLeft[c] - 1]
          /\ IF colsLeft[c] = 1
             THEN StoreAndReturn(c)
             ELSE UNCHANGED <<cachedSchema, cacheExpiry, built, got, llmOut, spc>>
    /\ UNCHANGED <<now, events, filterVars, chatVars, dbVars, vars000>>

\* an introspection failure that also drops the cache
IntrospectionThrows_Drops ==
    /\ \E c \in SchemaCallers :
          /\ spc[c] \in {"tables", "columns"}
          /\ spc' = [spc EXCEPT ![c] = "failed"]
    /\ cachedSchema' = 0
    /\ cacheExpiry' = 0
    /\ UNCHANGED <<now, built, colsLeft, got, llmOut, events, filterVars, chatVars, dbVars, vars000>>

\* an introspection query rejects: getSchema throws, /chat answers 500
IntrospectionThrows ==
    /\ \E c \in SchemaCallers :
          /\ spc[c] \in {"tables", "columns"}
          /\ spc' = [spc EXCEPT ![c] = "failed"]
    /\ UNCHANGED <<cachedSchema, cacheExpiry, now, built, colsLeft, got, llmOut, events, filterVars, chatVars, dbVars, vars000>>

\* POST /clear-cache
ClearCache ==
    /\ Len(events) < MaxEvents
    /\ cachedSchema' = 0
    /\ cacheExpiry' = 0
    /\ events' = Append(events, Cleared)
    /\ UNCHANGED <<now, built, spc, colsLeft, got, llmOut, filterVars, chatVars, dbVars, vars000>>

Tick ==
    /\ now < MaxTicks * ClockStep
    /\ now' = now + ClockStep
    /\ UNCHANGED <<cachedSchema, cacheExpiry, built, spc, colsLeft, got, llmOut, events, filterVars, chatVars, dbVars, vars000>>

NextSchema ==
    \/ GetSchemaCall
    \/ TablesReturn
    \/ ColumnsReturn
    \/ IntrospectionThrows
    \/ ClearCache
    \/ Tick

InitSchema ==
    /\ raw = <<>>
    /\ out = NotRun
    /\ applied = <<>>
    /\ ChatIdle
    /\ DbIdle

SpecSchema == InitSchema /\ [][NextSchema]_vars

\* C11 as the spec states it: a getSchema call made while a description is
\* cached and not expired returns it without introspection, and after
\* /clear-cache the next getSchema call introspects again.
C11_RefreshOnlyWhenNeeded ==
    /\ \A c \in SchemaCallers :
          spc[c] \in {"tables", "columns"} => got[c] = 0
    /\ \A i \in 1..(Len(events) - 1) :
          (events[i].op = "clear" /\ events[i + 1].op = "call") => ~events[i + 1].hit

\* C12: a request whose introspection failed has been given no description
\* and has issued no LLM call, and the step on which the introspection fails
\* leaves cachedSchema and cacheExpiry as they were.
C12_FailureLeavesCache ==
    /\ [](\A c \in SchemaCallers : spc[c] = "failed" => (got[c] = 0 /\ llmOut[c] = 0))
    /\ [][(\E c \in SchemaCallers : spc[c] # "failed" /\ spc'[c] = "failed") =>
             (cachedSchema' = cachedSchema /\ cacheExpiry' = cacheExpiry)]_vars

\* a refresh has failed while an expired description was in the cache
C12_Witness ==
    /\ \E c \in SchemaCallers : spc[c] = "failed"
    /\ cachedSchema # 0
    /\ now >= cacheExpiry

\* ---------------------------------------------------------------------
\* The pure functions of the pipeline, applied to a drafted text in the
\* order of the /chat handler: cleanSQL, enforceLimit, applyTableAliases,
\* toCountQuery.
\* ---------------------------------------------------------------------

PureHeads == {Chars("select a"), Chars("SELECT count(a)")}

PureSources ==
    {<<>>,
     Chars(" from chat_rfb.main.empresas"),
     Chars(" from CHAT_RFB.Main.Empresas_Chat e"),
     Chars(" from chat_rfb.main.empresas_archive"),
     Chars(" from chat_rfb.main.empresas_chat_janeiro2026"),
     Chars(" from xchat_rfb.main.empresas, chat_rfbXmain.empresas"),
     Chars(" from chat_rfb.main.empresas.chat_rfb.main.empresas_chat"),
     Chars(" from (select b from chat_rfb.main.empresas_chat limit 5) x")}

PureTails ==
    {<<>>, Chars(" limit 10"), Chars(" Limit  7 "), Chars(" where b = 'sum(c)'"),
     Chars(";"), Chars(" as ") \o <<BT, "b", BT>>, Chars("; select b")}

PureTexts == {h \o s \o e : h \in PureHeads, s \in PureSources, e \in PureTails}

\* req.body.limit: absent, not a number, or a number
LimitInputs ==
    {[given |-> FALSE, nan |-> FALSE, value |-> 0],
     [given |-> TRUE, nan |-> TRUE, value |-> 0],
     [given |-> TRUE, nan |-> FALSE, value |-> 0],
     [given |-> TRUE, nan |-> FALSE, value |-> 0 - 3],
     [given |-> TRUE, nan |-> FALSE, value |-> 20],
     [given |-> TRUE, nan |-> FALSE, value |-> 300]}

NoLimitInput == [given |-> FALSE, nan |-> FALSE, value |-> 0]

\* server.js: Number(limit ?? 50), the default when not finite or not
\* positive, then Math.min(.., 200)
previewLimitOf(l) ==
    IF l.given /\ l.nan THEN DEFAULT_PREVIEW_LIMIT ELSE EffectiveLimit(l)

\* part_001: `${Math.min(Math.max(Number(limit ?? 50), 1), 200)}`
previewLimitText001(l) ==
    IF l.given /\ l.nan THEN Chars("NaN")
    ELSE LET n == IF l.given THEN l.value ELSE DEFAULT_PREVIEW_LIMIT
             m == IF n > 1 THEN n ELSE 1
         IN  NumberToString(IF m < MAX_PREVIEW_LIMIT THEN m ELSE MAX_PREVIEW_LIMIT)

enforceLimit001(s, l) ==
    IF looksAggregated(s) \/ hasLimit(s) THEN s
    ELSE s \o Chars(" LIMIT ") \o previewLimitText001(l)

FenceWraps ==
    {[open |-> FenceSql \o <<"\n">>, close |-> <<"\n">> \o Fence],
     [open |-> Fence, close |-> Fence],
     [open |-> Fence \o Chars("SQL "), close |-> <<" ">> \o Fence \o <<"\n">>]}

Applied(op, arg, req, res) == [op |-> op, arg |-> arg, req |-> req, res |-> res]

LastApplied == applied[Len(applied)]

PureInit ==
    /\ raw \in PureTexts
    /\ out = NotRun
    /\ applied = <<>>
    /\ ChatIdle
    /\ DbIdle

SanitizeFenced ==
    /\ out # NotRun
    /\ applied = <<>>
    /\ \E w \in FenceWraps :
          \E t \in {w.open \o raw \o w.close} :
             applied' = <<Applied("fenced", t, NoLimitInput, cleanSQL(t))>>
    /\ UNCHANGED <<raw, out, chatVars, schemaVars, dbVars, vars000>>

EnforceLimit ==
    /\ out.kind = "ok"
    /\ applied = <<>>
    /\ \E l \in LimitInputs :
          applied' = <<Applied("limit", out.sql, l, enforceLimit(out.sql, previewLimitOf(l)))>>
    /\ UNCHANGED <<raw, out, chatVars, schemaVars, dbVars, vars000>>

EnforceLimit001 ==
    /\ out.kind = "ok"
    /\ applied = <<>>
    /\ \E l \in LimitInputs :
          applied' = <<Applied("limit001", out.sql, l, enforceLimit001(out.sql, l))>>
    /\ UNCHANGED <<raw, out, chatVars, schemaVars, dbVars, vars000>>

Rewrite ==
    /\ Len(applied) = 1
    /\ LastApplied.op = "limit"
    /\ \E s \in {LastApplied.res} :
          applied' = Append(applied, Applied("alias", s, LastApplied.req, applyTableAliases(s)))
    /\ UNCHANGED <<raw, out, chatVars, schemaVars, dbVars, vars000>>

RewriteAgain ==
    /\ Len(applied) = 2
    /\ LastApplied.op = "alias"
    /\ \E s \in {LastApplied.res} :
          applied' = Append(applied, Applied("alias2", s, LastApplied.req, applyTableAliases(s)))
    /\ UNCHANGED <<raw, out, chatVars, schemaVars, dbVars, vars000>>

CountVariant ==
    /\ Len(applied) = 2
    /\ LastApplied.op = "alias"
    /\ \E s \in {LastApplied.res} :
          applied' = Append(applied, Applied("count", s, LastApplied.req, toCountQuery(s)))
    /\ UNCHANGED <<raw, out, chatVars, schemaVars, dbVars, vars000>>

PureNext ==
    \/ Sanitize
    \/ SanitizeFenced
    \/ EnforceLimit
    \/ EnforceLimit001
    \/ Rewrite
    \/ RewriteAgain
    \/ CountVariant

SpecPure == PureInit /\ [][PureNext]_vars

\* the applications of one function recorded in the state
Of(op) == {k \in 1..Len(applied) : applied[k].op = op}

LimitStarts(s) == {i \in 1..Len(s) : LimitLenAt(s, i) > 0}

CountPrefix == Chars("SELECT COUNT(*) AS total_rows FROM (")

\* C15: the count variant of a validated statement is that statement wrapped
\* as the subquery of one COUNT(*) statement, and it contains no limit
\* clause, however many the statement contained.
C15_CountHasNoLimit ==
    \A k \in Of("count") :
        /\ startsWith(applied[k].res, CountPrefix)
        /\ endsWith(applied[k].res, Chars(") t"))
        /\ LimitStarts(applied[k].res) = {}

\* the limit value the claim gives for a request
ClaimedLimit(l) ==
    IF ~l.given \/ l.nan \/ l.value <= 0 THEN DEFAULT_PREVIEW_LIMIT
    ELSE IF l.value < MAX_PREVIEW_LIMIT THEN l.value ELSE MAX_PREVIEW_LIMIT

\* C16: for a validated statement that is not an aggregate and has no limit
\* clause, the output of enforceLimit has exactly one limit clause, placed
\* at its end, whose value is the request's effective preview limit.
C16_OneLimitWithEffectiveValue ==
    \A k \in Of("limit") \cup Of("limit001") :
        (~looksAggregated(applied[k].arg) /\ LimitStarts(applied[k].arg) = {}) =>
            /\ Cardinality(LimitStarts(applied[k].res)) = 1
            /\ applied[k].res =
                  applied[k].arg \o Chars(" LIMIT ") \o NumberToString(ClaimedLimit(applied[k].req))

\* C18: rewriting a rewritten statement changes nothing.
C18_RewriteIdempotent ==
    \A k \in Of("alias2") : applied[k].res = applied[k].arg

\* a statement has been rewritten twice and the first rewriting changed it
C18_Witness ==
    \E k \in Of("alias2") :
        /\ applied[k - 1].op = "alias"
        /\ applied[k - 1].res # applied[k - 1].arg

\* the whole-word occurrences of the canonical names in s
Occurrences(s) ==
    {o \in [at : 1..Len(s), n : 1..Len(TABLE_ALIASES)] :
        WordAtCI(s, o.at, TABLE_ALIASES[o.n].from)}

Growth(o) == Len(TABLE_ALIASES[o.n].to) - Len(TABLE_ALIASES[o.n].from)

RECURSIVE SumGrowth(_)
SumGrowth(O) ==
    IF O = {} THEN 0
    ELSE LET o == CHOOSE x \in O : TRUE IN Growth(o) + SumGrowth(O \ {o})

\* how far the text before position p of s moves to the right
Shift(s, p) == SumGrowth({o \in Occurrences(s) : o.at < p})

Covered(s, p) ==
    \E o \in Occurrences(s) : p >= o.at /\ p < o.at + Len(TABLE_ALIASES[o.n].from)

\* C19: rewriting puts the physical name in place of every whole-word,
\* case-insensitive occurrence of a canonical name and keeps every other
\* character, so that a name with further word characters stays as it is;
\* afterwards no canonical name is left as a whole word.
C19_RewriteWholeWordsOnly ==
    \A k \in Of("alias") :
        LET s == applied[k].arg
            r == applied[k].res
        IN  /\ Len(r) = Len(s) + SumGrowth(Occurrences(s))
            /\ \A o \in Occurrences(s) : IsAt(r, o.at + Shift(s, o.at), TABLE_ALIASES[o.n].to)
            /\ \A p \in 1..Len(s) : ~Covered(s, p) => r[p + Shift(s, p)] = s[p]
            /\ Occurrences(r) = {}

\* a statement with a canonical name, in another case, and with a name that
\* only extends a canonical name has been rewritten
C19_Witness ==
    \E k \in Of("alias") :
        /\ Occurrences(applied[k].arg) # {}
        /\ \E i \in 1..Len(applied[k].arg) :
              \E a \in 1..Len(TABLE_ALIASES) :
                 /\ IsAtCI(applied[k].arg, i, TABLE_ALIASES[a].from)
                 /\ ~IsAt(applied[k].arg, i, TABLE_ALIASES[a].from)
                 /\ WordAtCI(applied[k].arg, i, TABLE_ALIASES[a].from)
        /\ \E i \in 1..Len(applied[k].arg) :
              /\ IsAtCI(applied[k].arg, i, TABLE_ALIASES[1].from)
              /\ ~WordAtCI(applied[k].arg, i, TABLE_ALIASES[1].from)

\* C20: for a text that cleanSQL accepts, cleanSQL returns the same
\* statement when the text is wrapped in fenced code-block markers.
C20_FencesChangeNothing ==
    \A k \in Of("fenced") : out.kind = "ok" => applied[k].res = out

\* an accepted text that itself holds grave accents has been sanitized
\* inside fences
C20_Witness ==
    \E k \in Of("fenced") :
        /\ out.kind = "ok"
        /\ applied[k].res.kind = "ok"
        /\ BT \in {raw[i] : i \in 1..Len(raw)}
        /\ IsAt(applied[k].arg, Len(applied[k].arg) - 3, <<BT, BT, BT, BT>>)

\* ---------------------------------------------------------------------
\* part_000, first revision: lazy initialization of the warehouse (getDb),
\* queryAll and the /chat handler that uses them.
\* ---------------------------------------------------------------------

Probing(i) == i >= 1 /\ i <= Len(instances) /\ instances[i] = "probing"

\* getDb() as far as its first await, called by request c; the constructor
\* or connect() may throw inside the promise's executor, which rejects at once
GetDbCall_NoMarker(c) ==
    IF db # 0
    THEN /\ gotDb' = [gotDb EXCEPT ![c] = db]
         /\ gpc' = [gpc EXCEPT ![c] = "query"]
         /\ UNCHANGED <<db, dbInitPromise, instances, awaiting, resp000>>
    ELSE /\ \/ /\ instances' = Append(instances, "probing")
               /\ dbInitPromise' = "pending"
            \/ /\ instances' = Append(instances, "failed")
               /\ dbInitPromise' = "none"
         /\ awaiting' = [awaiting EXCEPT ![c] = Len(instances) + 1]
         /\ gpc' = [gpc EXCEPT ![c] = "waiting"]
         /\ UNCHANGED <<db, gotDb, resp000>>

GetDbCall(c) ==
    IF db # 0
    THEN /\ gotDb' = [gotDb EXCEPT ![c] = db]
         /\ gpc' = [gpc EXCEPT ![c] = "query"]
         /\ UNCHANGED <<db, dbInitPromise, instances, awaiting, resp000>>
    ELSE IF dbInitPromise = "none"
    THEN /\ \/ /\ instances' = Append(instances, "probing")
               /\ dbInitPromise' = "pending"
            \/ /\ instances' = Append(instances, "failed")
               /\ dbInitPromise' = "none"
         /\ awaiting' = [awaiting EXCEPT ![c] = Len(instances) + 1]
         /\ gpc' = [gpc EXCEPT ![c] = "waiting"]
         /\ UNCHANGED <<db, gotDb, resp000>>
    ELSE /\ awaiting' = [awaiting EXCEPT ![c] = Len(instances)]
         /\ gpc' = [gpc EXCEPT ![c] = "waiting"]
         /\ UNCHANGED <<db, dbInitPromise, instances, gotDb, resp000>>

\* POST /chat arrives: an empty query is answered at once, any other calls queryAll
Request000 ==
    /\ \E c \in Requests000 :
          /\ gpc[c] = "idle"
          /\ \E q \in Queries :
                IF isEmptyQuery(q)
                THEN /\ gpc' = [gpc EXCEPT ![c] = "empty"]
                     /\ resp000' = [resp000 EXCEPT ![c] = 400]
                     /\ UNCHANGED <<db, dbInitPromise, instances, awaiting, gotDb>>
                ELSE GetDbCall(c)
    /\ UNCHANGED <<mdConn, opened, vars001, vars003, filterVars, schemaVars, chatVars>>

\* the probe "SELECT 1 AS ok;" calls back without error: db = instance; resolve(db)
ProbeReturns000 ==
    /\ dbInitPromise = "pending"
    /\ Probing(Len(instances))
    /\ instances' = [instances EXCEPT ![Len(instances)] = "ok"]
    /\ db' = Len(instances)
    /\ dbInitPromise' = "resolved"
    /\ UNCHANGED <<gpc, awaiting, gotDb, resp000>>
    /\ UNCHANGED <<mdConn, opened, vars001, vars003, filterVars, schemaVars, chatVars>>

ProbeThrows000_Cached ==
    /\ dbInitPromise = "pending"
    /\ Probing(Len(instances))
    /\ instances' = [instances EXCEPT ![Len(instances)] = "failed"]
    /\ dbInitPromise' = "rejected"
    /\ UNCHANGED <<db, gpc, awaiting, gotDb, resp000>>
    /\ UNCHANGED <<mdConn, opened, vars001, vars003, filterVars, schemaVars, chatVars>>

\* the probe calls back with an error: reject(err), then the catch handler
\* sets dbInitPromise = null and throws again
ProbeThrows000 ==
    /\ dbInitPromise = "pending"
    /\ Probing(Len(instances))
    /\ instances' = [instances EXCEPT ![Len(instances)] = "failed"]
    /\ dbInitPromise' = "none"
    /\ UNCHANGED <<db, gpc, awaiting, gotDb, resp000>>
    /\ UNCHANGED <<mdConn, opened, vars001, vars003, filterVars, schemaVars, chatVars>>

\* await getDb() settles for a request that waited on the promise
AwaitSettles000 ==
    /\ \E c \in Requests000 :
          /\ gpc[c] = "waiting"
          /\ ~Probing(awaiting[c])
          /\ IF instances[awaiting[c]] = "ok"
             THEN /\ gotDb' = [gotDb EXCEPT ![c] = awaiting[c]]
                  /\ gpc' = [gpc EXCEPT ![c] = "query"]
                  /\ UNCHANGED resp000
             ELSE /\ gpc' = [gpc EXCEPT ![c] = "done"]
                  /\ resp000' = [resp000 EXCEPT ![c] = 500]
                  /\ UNCHANGED gotDb
    /\ UNCHANGED <<db, dbInitPromise, instances, awaiting>>
    /\ UNCHANGED <<mdConn, opened, vars001, vars003, filterVars, schemaVars, chatVars>>

\* conn.all(sql, ...) of queryAll calls back with rows
QueryReturns000 ==
    /\ \E c \in Requests000 :
          /\ gpc[c] = "query"
          /\ gpc' = [gpc EXCEPT ![c] = "done"]
          /\ resp000' = [resp000 EXCEPT ![c] = 200]
    /\ UNCHANGED <<db, dbInitPromise, instances, awaiting, gotDb>>
    /\ UNCHANGED <<mdConn, opened, vars001, vars003, filterVars, schemaVars, chatVars>>

QueryThrows000 ==
    /\ \E c \in Requests000 :
          /\ gpc[c] = "query"
          /\ gpc' = [gpc EXCEPT ![c] = "done"]
          /\ resp000' = [resp000 EXCEPT ![c] = 500]
    /\ UNCHANGED <<db, dbInitPromise, instances, awaiting, gotDb>>
    /\ UNCHANGED <<mdConn, opened, vars001, vars003, filterVars, schemaVars, chatVars>>

Next000 ==
    \/ Request000
    \/ ProbeReturns000
    \/ ProbeThrows000
    \/ AwaitSettles000
    \/ QueryReturns000
    \/ QueryThrows000

Init000 ==
    /\ raw = <<>>
    /\ out = NotRun
    /\ applied = <<>>
    /\ ChatIdle
    /\ DbIdle

Spec000 == Init000 /\ [][Next000]_vars

\* C21: a /chat request with an empty or blank query is answered without an
\* error status and starts no warehouse initialization and no query.
C21_EmptyQueryIsBenign ==
    \A c \in Requests000 :
        gpc[c] = "empty" =>
            /\ resp000[c] >= 200
            /\ resp000[c] < 400
            /\ awaiting[c] = 0
            /\ gotDb[c] = 0

\* C28: lazy initialization is single-flight. At most one instance is being
\* probed, the requests that call getDb while it is probed all wait for that
\* instance and all receive it, no second instance is created unless a probe
\* has failed, and db is an instance whose probe has succeeded.
C28_SingleFlight ==
    /\ Cardinality({i \in 1..Len(instances) : Probing(i)}) <= 1
    /\ (dbInitPromise = "pending") = Probing(Len(instances))
    /\ \A c \in Requests000 :
          (gpc[c] = "waiting" /\ Probing(awaiting[c])) => awaiting[c] = Len(instances)
    /\ (\A i \in 1..Len(instances) : instances[i] # "failed") => Len(instances) <= 1
    /\ db # 0 => instances[db] = "ok"
    /\ \A c \in Requests000 :
          gotDb[c] # 0 =>
             /\ gotDb[c] = db
             /\ awaiting[c] \in {0, db}

\* two requests have waited for the same initialization and both hold its instance
C28_Witness ==
    \E c, d \in Requests000 :
        /\ c # d
        /\ awaiting[c] # 0
        /\ awaiting[c] = awaiting[d]
        /\ gotDb[c] = awaiting[c]
        /\ gotDb[d] = awaiting[d]

\* C29: a failed initialization is not kept. Once no probe is in flight and
\* db is unset, the in-flight marker is clear, so the next getDb call starts
\* a new attempt; an instance whose probe failed is never db; and a request
\* that waited for a failed initialization is answered with its error.
C29_FailureNotCached ==
    /\ (db = 0 /\ ~Probing(Len(instances))) => dbInitPromise = "none"
    /\ \A i \in 1..Len(instances) : instances[i] = "failed" => db # i
    /\ \A c \in Requests000 :
          (awaiting[c] # 0 /\ instances[awaiting[c]] = "failed") =>
             /\ gotDb[c] = 0
             /\ gpc[c] \in {"waiting", "done"}
             /\ gpc[c] = "done" => resp000[c] = 500

\* two requests got the error of a failed initialization and a later request
\* has started a new one
C29_Witness ==
    /\ Len(instances) >= 2
    /\ instances[1] = "failed"
    /\ \E c, d \in Requests000 :
          /\ c # d
          /\ awaiting[c] = 1 /\ resp000[c] = 500
          /\ awaiting[d] = 1 /\ resp000[d] = 500

\* ---------------------------------------------------------------------
\* The rows of the preview: coerceBigIntRows and the JSON body of res.json.
\* A value is [t, neg, hi, lo]; the magnitude of a bigint or a number is
\* hi * Limb + lo, which keeps 2^53 and its neighbours within TLC's integers.
\* ---------------------------------------------------------------------

Limb == 2^27

\* Number.MAX_SAFE_INTEGER = 2^53 - 1 = SafeHi * Limb + SafeLo
SafeHi == 2^26 - 1

SafeLo == Limb - 1

BigIntOf(neg, hi, lo) == [t |-> "bigint", neg |-> neg, hi |-> hi, lo |-> lo]

NumberOf(neg, hi, lo) == [t |-> "number", neg |-> neg, hi |-> hi, lo |-> lo]

StringOf(id) == [t |-> "string", neg |-> FALSE, hi |-> 0, lo |-> id]

NullValue == [t |-> "null", neg |-> FALSE, hi |-> 0, lo |-> 0]

WarehouseValues ==
    {BigIntOf(FALSE, 0, 0), BigIntOf(FALSE, 0, 7), BigIntOf(TRUE, 0, 7),
     BigIntOf(FALSE, SafeHi, SafeLo), BigIntOf(TRUE, SafeHi, SafeLo),
     BigIntOf(FALSE, SafeHi + 1, 1), BigIntOf(FALSE, SafeHi + 1, 3),
     NumberOf(FALSE, 0, 7), StringOf(1), NullValue}

MaxCols == 2

WarehouseRows == UNION {[1..n -> WarehouseValues] : n \in 1..MaxCols}

RowInputs == {<<>>} \cup {<<r>> : r \in WarehouseRows}

\* Number(v) for a bigint v below 2^54: exact up to 2^53, above it rounded to
\* the nearest double, ties to the even mantissa
ToNumber(v) ==
    IF v.hi <= SafeHi \/ (v.hi = SafeHi + 1 /\ v.lo = 0) \/ v.lo % 2 = 0
    THEN NumberOf(v.neg, v.hi, v.lo)
    ELSE IF (v.lo - 1) % 4 = 0
    THEN NumberOf(v.neg, v.hi, v.lo - 1)
    ELSE IF v.lo + 1 = Limb
    THEN NumberOf(v.neg, v.hi + 1, 0)
    ELSE NumberOf(v.neg, v.hi, v.lo + 1)

\* typeof v === "bigint" ? Number(v) : v
coerceValue(v) == IF v.t = "bigint" THEN ToNumber(v) ELSE v

coerceBigIntRows(rows) ==
    [i \in 1..Len(rows) |-> [j \in 1..Len(rows[i]) |-> coerceValue(rows[i][j])]]

\* res.json({..., rows_preview, ...}): JSON.stringify throws a TypeError on a
\* BigInt, and the handler's catch then answers 500
resJson(rows) ==
    IF \E i \in 1..Len(rows) : \E j \in 1..Len(rows[i]) : rows[i][j].t = "bigint"
    THEN [status |-> 500, rows_preview |-> <<>>]
    ELSE [status |-> 200, rows_preview |-> rows]

RowsInit ==
    /\ raw = <<>>
    /\ out = NotRun
    /\ applied = <<>>
    /\ ChatIdle
    /\ DbIdle

\* server.js: previewRows = coerceBigIntRows(await queryMD(sql)) ... res.json
PreviewBody ==
    /\ applied = <<>>
    /\ \E rows \in RowInputs :
          applied' = <<Applied("preview", rows, NoLimitInput, resJson(coerceBigIntRows(rows)))>>
    /\ UNCHANGED <<raw, out, chatVars, schemaVars, dbVars, vars000>>

\* part_001: rows_preview = await queryMD(sql) ... res.json
PreviewBody001 ==
    /\ applied = <<>>
    /\ \E rows \in RowInputs :
          applied' = <<Applied("preview001", rows, NoLimitInput, resJson(rows))>>
    /\ UNCHANGED <<raw, out, chatVars, schemaVars, dbVars, vars000>>

RowsNext ==
    \/ PreviewBody
    \/ PreviewBody001

SpecRows == RowsInit /\ [][RowsNext]_vars

InSafeRange(v) == v.hi <= SafeHi

\* C22: every 64-bit integer of the preview rows that lies in the JSON-safe
\* range is in the response preview as the number of the same value, every
\* other value is there unchanged, and the preview holds no 64-bit integer.
C22_SafeIntegersRoundTrip ==
    \A k \in Of("preview") \cup Of("preview001") :
        LET rows == applied[k].arg
            body == applied[k].res
        IN  (\A i \in 1..Len(rows) : \A j \in 1..Len(rows[i]) :
                 rows[i][j].t = "bigint" => InSafeRange(rows[i][j])) =>
            /\ body.status = 200
            /\ Len(body.rows_preview) = Len(rows)
            /\ \A i \in 1..Len(rows) : \A j \in 1..Len(rows[i]) :
                  IF rows[i][j].t = "bigint"
                  THEN body.rows_preview[i][j] =
                          NumberOf(rows[i][j].neg, rows[i][j].hi, rows[i][j].lo)
                  ELSE body.rows_preview[i][j] = rows[i][j]


(***************************************************************************)
(* The three sanitizers side by side: cleanSQL of server.js (first         *)
(* revision), cleanSQL of the second revision of server.js with its token  *)
(* list, and cleanSQL of part_004, applied to statements with quoted       *)
(* identifiers and with identifiers that contain a keyword.                *)
(***************************************************************************)
BLOCKED_SQL_TOKENS ==
    {Chars("insert"), Chars("update"), Chars("delete"), Chars("drop"), Chars("alter"),
     Chars("create"), Chars("truncate"), Chars("merge"), Chars("grant"), Chars("revoke"),
     Chars("pragma"), Chars("attach"), Chars("detach"), Chars("install"), Chars("load"),
     Chars("copy"), Chars("export"), Chars("call"), Chars("set"),
     Chars("create secret"), Chars("secret"), Chars("httpfs"), Chars("s3"), Chars("gcs"),
     Chars("azure"),
     Chars("read_csv"), Chars("read_parquet"), Chars("read_json"), Chars("read_ndjson")}

\* BLOCKED_SQL_TOKENS.some(tok => s.includes(tok)) with s = sql.toLowerCase()
containsBlockedTokens(sql0) ==
    LET s == toLowerCase(sql0)
    IN  \E tok \in BLOCKED_SQL_TOKENS : includes(s, tok)

\* the second cleanSQL of server.js; "BlockedToken" is "SQL bloqueada: contém
\* operação/comando não permitido."
cleanSQL2(sqlRaw) ==
    LET s == normalizeSql(sqlRaw)
    IN  IF ~isSelectLike(s) THEN Thrown("NotSelect", NoReason)
        ELSE IF hasMultipleStatements(s) THEN Thrown("MultipleStatements", NoReason)
        ELSE IF containsBlockedTokens(s) THEN Thrown("BlockedToken", NoReason)
        ELSE IF hasCommentMarker(s) THEN Thrown("Comment", NoReason)
        ELSE Returned(s)

QuotedHeads ==
    {Chars("select a"), Chars("select \"a b\""), Chars("select \"a  b\""),
     Chars("select created_at"), Chars("select a") \o AuditAll}

QuotedSources == {<<>>, Chars("  from  t")}

QuotedTails ==
    {<<>>, Chars(" where \"x") \o <<"\t">> \o Chars("y\" = 1"), Chars(";"),
     Chars(" order by \"c\" ")}

SanitizeTexts == {h \o s \o e : h \in QuotedHeads, s \in QuotedSources, e \in QuotedTails}

SanitizeInit ==
    /\ raw \in SanitizeTexts
    /\ out = NotRun
    /\ applied = <<>>
    /\ ChatIdle
    /\ DbIdle

CleanSQL ==
    /\ applied = <<>>
    /\ applied' = <<Applied("clean", raw, NoLimitInput, cleanSQL(raw))>>
    /\ UNCHANGED <<raw, out, chatVars, schemaVars, dbVars, vars000>>

CleanSQL2 ==
    /\ applied = <<>>
    /\ applied' = <<Applied("clean2", raw, NoLimitInput, cleanSQL2(raw))>>
    /\ UNCHANGED <<raw, out, chatVars, schemaVars, dbVars, vars000>>

CleanSQL004 ==
    /\ applied = <<>>
    /\ applied' = <<Applied("clean004", raw, NoLimitInput, cleanSQL004(raw))>>
    /\ UNCHANGED <<raw, out, chatVars, schemaVars, dbVars, vars000>>

SanitizeNext ==
    \/ CleanSQL
    \/ CleanSQL2
    \/ CleanSQL004

SpecSanitize == SanitizeInit /\ [][SanitizeNext]_vars

\* the positions of the double quotes of s, and the n-th of them
Quotes(s) == {i \in 1..Len(s) : s[i] = "\""}

NthQuote(s, n) ==
    CHOOSE i \in Quotes(s) : Cardinality({j \in Quotes(s) : j < i}) = n - 1

\* the texts between the first and second quote, the third and fourth, ...
QuotedRegions(s) ==
    [k \in 1..(Cardinality(Quotes(s)) \div 2) |->
        SubSeq(s, NthQuote(s, 2 * k - 1) + 1, NthQuote(s, 2 * k) - 1)]

\* C23 as the spec states it: for every statement cleanSQL accepts, the text
\* between each pair of double quotes is the same in the output as in the
\* input.
C23_QuotedRegionsKept ==
    \A k \in Of("clean") :
        applied[k].res.kind = "ok" =>
            QuotedRegions(applied[k].res.sql) = QuotedRegions(applied[k].arg)

\* every keyword of the three lists
AllDenylisted == DenylistWords \cup BLOCKED_SQL_TOKENS \cup BlockedSubstrings004

DenylistErrors == {"BlockedPattern", "BlockedToken", "OperacaoBloqueada"}

\* C27 as the spec states it: the denylist matches whole words only, so a
\* statement in which no denylisted keyword stands as a whole word is not
\* rejected by the denylist of any of the sanitizers.
C27_WholeWordsOnly ==
    \A k \in 1..Len(applied) :
        (~\E w \in AllDenylisted : HasWholeWord(applied[k].arg, w)) =>
            applied[k].res.kind \notin DenylistErrors

====
